---- MODULE Spec2Model ----
(***************************************************************************)
(* llm-council: the three-stage deliberation pipeline of backend/council.py *)
(* (collect, rank, synthesize), the gateway and fan-out dispatcher of       *)
(* backend/openrouter.py, and the two request handlers of backend/main.py   *)
(* (send_message, send_message_stream.event_generator).                     *)
(*                                                                         *)
(* Texts are sequences of tokens: "MARK" is the literal "FINAL RANKING:",   *)
(* "NUM" a digit sequence followed by a period, "SP" a run of whitespace,   *)
(* "Response A".. a label token, and any other string is other prose.       *)
(* A missing value (Python None) is kept apart from the empty text.         *)
(***************************************************************************)
EXTENDS Integers, Sequences, FiniteSets, TLC

\* ------------------------------------------------------------------ bounds
\* Number of council members of the modelled configuration.
CouncilSize == 2

\* Longest model list handed to the dispatcher on its own.
MaxBatch == 2

\* ------------------------------------------------------- configuration
ModelNames == <<"m1", "m2", "m3", "m4", "m5">>

\* config.py COUNCIL_MODELS: a list of pairwise distinct identifiers.
COUNCIL_MODELS == [i \in 1..CouncilSize |-> ModelNames[i]]

\* config.py CHAIRMAN_MODEL: the second entry of COUNCIL_MODELS.
CHAIRMAN_MODEL == "m2"

\* council.py stage3_synthesize_final: for attempt in range(2).
ChairmanAttempts == 2

\* ------------------------------------------------------------ values
\* Python None as a message content.
NoContent == [isNone |-> TRUE, text |-> <<>>]

Content(t) == [isNone |-> FALSE, text |-> t]

\* Python None as the gateway's return value.
NoResult == [isNone |-> TRUE]

\* What one HTTP exchange can do: fail in transport (timeout included), come
\* back with a non-success status, come back with a body that has no
\* choices[0].message, come back with a message that has no content field,
\* or come back with a message whose content is the text t.
FailKinds == {"transport_error", "bad_status", "bad_body"}

Exchange(texts) ==
    {[kind |-> k, text |-> <<>>] : k \in FailKinds \cup {"no_content"}}
        \cup {[kind |-> "ok", text |-> t] : t \in texts}

\* openrouter.py query_model: the try block returns
\* {'content': message.get('content'), ...}; HTTPStatusError and every other
\* Exception return None.
query_model(x) ==
    CASE x.kind \in FailKinds -> NoResult
      [] x.kind = "no_content" -> [isNone |-> FALSE, content |-> NoContent]
      [] OTHER -> [isNone |-> FALSE, content |-> Content(x.text)]

\* The elements of a list.
Range(s) == {s[i] : i \in 1..Len(s)}

\* ------------------------------------------------------- dict helpers
\* A Python dict is a sequence of <<key, value>> pairs with distinct keys, in
\* insertion order; assigning an existing key keeps its place.
DictHas(d, k) == \E i \in 1..Len(d) : d[i][1] = k

DictGet(d, k) == d[CHOOSE i \in 1..Len(d) : d[i][1] = k][2]

DictSet(d, k, v) ==
    IF DictHas(d, k)
    THEN [i \in 1..Len(d) |-> IF d[i][1] = k THEN <<k, v>> ELSE d[i]]
    ELSE Append(d, <<k, v>>)

RECURSIVE DictFromPairs(_, _)
DictFromPairs(ks, vs) ==
    IF Len(ks) = 0 \/ Len(vs) = 0 THEN <<>>
    ELSE LET n == IF Len(ks) < Len(vs) THEN Len(ks) ELSE Len(vs)
         IN DictSet(DictFromPairs(SubSeq(ks, 1, n - 1), SubSeq(vs, 1, n - 1)),
                    ks[n], vs[n])

\* A mapping that leaves out the models whose call returned None.
RECURSIVE ZipSuccessful(_, _)
ZipSuccessful(ms, rs) ==
    IF Len(ms) = 0 \/ Len(rs) = 0 THEN <<>>
    ELSE (IF rs[1].isNone THEN <<>> ELSE <<<<ms[1], rs[1]>>>>)
         \o ZipSuccessful(Tail(ms), Tail(rs))

\* openrouter.py query_models_parallel, last line:
\* {model: response for model, response in zip(models, responses)}.
ZipToDict(models, responses) == DictFromPairs(models, responses)

\* ------------------------------------------------------- rank extractor
\* chr(65 + i) for i = 0..25, the letters the pattern [A-Z] accepts.
LabelNames ==
    <<"Response A", "Response B", "Response C", "Response D", "Response E",
      "Response F", "Response G", "Response H", "Response I", "Response J",
      "Response K", "Response L", "Response M", "Response N", "Response O",
      "Response P", "Response Q", "Response R", "Response S", "Response T",
      "Response U", "Response V", "Response W", "Response X", "Response Y",
      "Response Z">>

\* The tokens the pattern 'Response [A-Z]' matches.
IsLabel(t) == \E i \in 1..Len(LabelNames) : LabelNames[i] = t

\* re.findall(r'Response [A-Z]', s): every label token, in textual order.
BareLabels(s) == SelectSeq(s, IsLabel)

RECURSIVE SkipSpaces(_, _)
SkipSpaces(s, i) ==
    IF i <= Len(s) /\ s[i] = "SP" THEN SkipSpaces(s, i + 1) ELSE i

\* A search that takes every label for a numbered item.
EveryLabel(s) == SelectSeq(s, IsLabel)

\* re.findall(r'\d+\.\s*Response [A-Z]', s) followed by the extraction of the
\* label of each match: a NUM, any whitespace, then a label token.
RECURSIVE NumberedFrom(_, _)
NumberedFrom(s, i) ==
    IF i > Len(s) THEN <<>>
    ELSE IF s[i] = "NUM"
         THEN LET j == SkipSpaces(s, i + 1)
              IN IF j <= Len(s) /\ IsLabel(s[j])
                 THEN <<s[j]>> \o NumberedFrom(s, j + 1)
                 ELSE NumberedFrom(s, i + 1)
         ELSE NumberedFrom(s, i + 1)

NumberedLabels(s) == NumberedFrom(s, 1)

\* A marker test that ignores case.
HasMarkerAnyCase(s) ==
    \E i \in 1..Len(s) : s[i] \in {"MARK", "final ranking:"}

\* "FINAL RANKING:" in ranking_text.
HasMarker(s) == \E i \in 1..Len(s) : s[i] = "MARK"

\* Index of the first "MARK" at or after i, or Len(s) + 1.
RECURSIVE NextMarker(_, _)
NextMarker(s, i) ==
    IF i > Len(s) \/ s[i] = "MARK" THEN i ELSE NextMarker(s, i + 1)

\* An extractor that searches the whole text, marker or not.
WholeText(s) == s

\* ranking_text.split("FINAL RANKING:")[1]: the text between the first
\* marker and the next one (or the end of the text).
RankingSection(s) ==
    LET a == NextMarker(s, 1)
        b == NextMarker(s, a + 1)
    IN SubSeq(s, a + 1, b - 1)

\* council.py parse_ranking_from_text, for a text (a str).
parse_ranking_from_text(s) ==
    IF HasMarker(s)
    THEN LET ranking_section == RankingSection(s)
             numbered_matches == NumberedLabels(ranking_section)
         IN IF Len(numbered_matches) > 0
            THEN numbered_matches
            ELSE BareLabels(ranking_section)
    ELSE BareLabels(s)

\* parse_ranking_from_text(None): '"FINAL RANKING:" in None' raises TypeError.
ParseRaises(content) == content.isNone

\* ------------------------------------------------------------ aggregator
\* A rounding that cuts the third decimal off.
Truncate2(sum, n) == (100 * sum) \div n

\* round(x, 2) of the exact quotient sum / n, in hundredths.
Round2(sum, n) ==
    LET q == (100 * sum) \div n
        r == (100 * sum) % n
    IN IF 2 * r < n THEN q
       ELSE IF 2 * r > n THEN q + 1
       ELSE IF q % 2 = 0 THEN q ELSE q + 1

RECURSIVE SumSeq(_)
SumSeq(s) == IF Len(s) = 0 THEN 0 ELSE s[1] + SumSeq(Tail(s))

RECURSIVE AddRenumbered(_, _, _, _)
\* An aggregation that numbers the resolvable labels only.
AddRenumbered(model_positions, parsed, label_to_model, position) ==
    LET Known(l) == \E i \in 1..Len(label_to_model) : label_to_model[i][1] = l
        known == SelectSeq(parsed, Known)
    IN IF position > Len(known) THEN model_positions
       ELSE LET model_name ==
                    label_to_model[CHOOSE i \in 1..Len(label_to_model) :
                                       label_to_model[i][1] = known[position]][2]
                hit == {i \in 1..Len(model_positions) :
                            model_positions[i][1] = model_name}
                next ==
                    IF hit = {}
                    THEN Append(model_positions, <<model_name, <<position>>>>)
                    ELSE [i \in 1..Len(model_positions) |->
                             IF i \in hit
                             THEN <<model_name,
                                    Append(model_positions[i][2], position)>>
                             ELSE model_positions[i]]
            IN AddRenumbered(next, known, label_to_model, position + 1)

\* The positions one parsed ranking adds: for position, label in
\* enumerate(parsed_ranking, start=1), kept when label is in label_to_model.
RECURSIVE AddPositions(_, _, _, _)
AddPositions(model_positions, parsed, label_to_model, position) ==
    IF position > Len(parsed) THEN model_positions
    ELSE LET label == parsed[position]
             next ==
                 IF DictHas(label_to_model, label)
                 THEN LET model_name == DictGet(label_to_model, label)
                          old == IF DictHas(model_positions, model_name)
                                 THEN DictGet(model_positions, model_name)
                                 ELSE <<>>
                      IN DictSet(model_positions, model_name,
                                 Append(old, position))
                 ELSE model_positions
         IN CHOOSE result \in
                {AddPositions(updated, parsed, label_to_model, position + 1) :
                     updated \in {next}} : TRUE

\* The loop over stage2_results: each ranking text is parsed again.
RECURSIVE CollectPositions(_, _, _)
CollectPositions(model_positions, stage2, label_to_model) ==
    IF Len(stage2) = 0 THEN model_positions
    ELSE CHOOSE result \in
             {CollectPositions(added, Tail(stage2), label_to_model) :
                  added \in
                      {AddPositions(model_positions, parsed,
                                    label_to_model, 1) :
                           parsed \in {parse_ranking_from_text(
                                           stage2[1].ranking.text)}}} : TRUE

AggregateEntry(pair) ==
    [model |-> pair[1],
     average_rank |-> Round2(SumSeq(pair[2]), Len(pair[2])),
     rankings_count |-> Len(pair[2])]

RECURSIVE InsertBeforeEqual(_, _)
\* An insertion that puts an entry ahead of the entries of equal rank.
InsertBeforeEqual(sorted, e) ==
    IF Len(sorted) = 0 THEN <<e>>
    ELSE IF sorted[Len(sorted)].average_rank < e.average_rank
         THEN Append(sorted, e)
         ELSE Append(InsertBeforeEqual(SubSeq(sorted, 1, Len(sorted) - 1), e),
                     sorted[Len(sorted)])

\* list.sort(key=average_rank): a stable sort, as an insertion sort.
RECURSIVE InsertByRank(_, _)
InsertByRank(sorted, e) ==
    IF Len(sorted) = 0 THEN <<e>>
    ELSE IF sorted[Len(sorted)].average_rank <= e.average_rank
         THEN Append(sorted, e)
         ELSE Append(InsertByRank(SubSeq(sorted, 1, Len(sorted) - 1), e),
                     sorted[Len(sorted)])

RECURSIVE SortByRank(_)
SortByRank(s) ==
    IF Len(s) = 0 THEN <<>>
    ELSE InsertByRank(SortByRank(SubSeq(s, 1, Len(s) - 1)), s[Len(s)])

\* council.py calculate_aggregate_rankings.
calculate_aggregate_rankings(stage2, label_to_model) ==
    CHOOSE result \in
        {SortByRank([i \in 1..Len(model_positions) |->
                         AggregateEntry(model_positions[i])]) :
             model_positions \in
                 {CollectPositions(<<>>, stage2, label_to_model)}} : TRUE

\* ------------------------------------------------------ stage functions
\* A labelling that starts over after the third letter.
LabelWrapped(i) == LabelNames[((i - 1) % 3) + 1]

\* chr(65 + i) for i = 26..30: the characters that follow 'Z'.
PastZ ==
    <<"Response [", "Response \\", "Response ]", "Response ^", "Response _">>

\* chr(65 + i): the label of the i-th successful response (i from 1).
LabelOf(i) ==
    IF i <= Len(LabelNames) THEN LabelNames[i] ELSE PastZ[i - Len(LabelNames)]

RECURSIVE Stage1From(_)
\* council.py stage1_collect_responses, the loop over responses.items():
\* one entry per model whose response is not None, in dict order.
Stage1From(responses) ==
    IF Len(responses) = 0 THEN <<>>
    ELSE LET model == responses[1][1]
             response == responses[1][2]
         IN (IF response.isNone THEN <<>>
             ELSE <<[model |-> model, response |-> response.content]>>)
            \o Stage1From(Tail(responses))

\* council.py stage2_collect_rankings: the label -> model mapping.
LabelToModel(stage1) ==
    [i \in 1..Len(stage1) |-> <<LabelOf(i), stage1[i].model>>]

\* stage2_collect_rankings raises when a response that is not None carries
\* the content None (parse_ranking_from_text(None)).
Stage2Raises(responses) ==
    \E i \in 1..Len(responses) :
        /\ ~responses[i][2].isNone
        /\ ParseRaises(responses[i][2].content)

RECURSIVE Stage2From(_)
\* council.py stage2_collect_rankings, the loop over responses.items().
Stage2From(responses) ==
    IF Len(responses) = 0 THEN <<>>
    ELSE LET model == responses[1][1]
             response == responses[1][2]
         IN (IF response.isNone THEN <<>>
             ELSE <<[model |-> model,
                     ranking |-> response.content,
                     parsed_ranking |->
                         parse_ranking_from_text(response.content.text)]>>)
            \o Stage2From(Tail(responses))

ChairmanFailedText == <<"Error: Unable to generate final synthesis.">>

\* council.py stage3_synthesize_final, after the retry loop.
Stage3From(response) ==
    IF response.isNone
    THEN [model |-> CHAIRMAN_MODEL, response |-> Content(ChairmanFailedText)]
    ELSE [model |-> CHAIRMAN_MODEL, response |-> response.content]

\* A retry loop that allows one attempt too many.
RetryOnceMore(response, attempts) ==
    response.isNone /\ attempts < ChairmanAttempts + 1

\* council.py stage3_synthesize_final, the loop 'for attempt in range(2)':
\* another attempt follows a None response while attempts remain.
RetryChairman(response, attempts) ==
    response.isNone /\ attempts < ChairmanAttempts

AllFailedText == <<"All models failed to respond. Please try again.">>

\* council.py run_full_council: the result when stage1_results is empty.
AllFailedResult == [model |-> "error", response |-> Content(AllFailedText)]

FollowupFailedText == <<"Error: Unable to generate follow-up response.">>

\* council.py chairman_followup, with a located deliberation.
FollowupFrom(response) ==
    IF response.isNone
    THEN [model |-> CHAIRMAN_MODEL, response |-> Content(FollowupFailedText)]
    ELSE [model |-> CHAIRMAN_MODEL, response |-> response.content]

\* council.py chairman_followup, lines 360-367: the test of the backward
\* scan, an assistant message whose stage1 is there and not empty.
IsDeliberation(msg) ==
    /\ msg.role = "assistant"
    /\ "stage1" \in DOMAIN msg
    /\ msg.stage1 # <<>>

\* A scan that stops at the earliest deliberation.
ScanForward(history, i) ==
    LET found == {j \in 1..i : IsDeliberation(history[j])}
    IN IF found = {} THEN 0 ELSE CHOOSE j \in found : \A k \in found : j <= k

RECURSIVE ScanBack(_, _)
\* for i in range(len(conversation_history) - 1, -1, -1): the index (from 1)
\* of the message the scan stops at, 0 when it finds none.
ScanBack(history, i) ==
    IF i = 0 THEN 0
    ELSE IF IsDeliberation(history[i]) THEN i
    ELSE ScanBack(history, i - 1)

LastDeliberation(history) == ScanBack(history, Len(history))

\* The content of the message before the deliberation when that is a user
\* message, None otherwise.
OriginalQuery(history, i) ==
    IF i > 1 /\ history[i - 1].role = "user"
    THEN Content(history[i - 1].content)
    ELSE NoContent

\* council.py chairman_followup, line 383: r['response'][:500].
FollowupBudget == 500

Ellipsis == <<"...">>

\* A summary that passes every response on whole.
Untruncated(r) == [model |-> r.model, text |-> r.response.text]

\* One line of the summary: the response, cut to the budget and followed by
\* an ellipsis when it is longer. A text is as long as it has tokens.
Summarize(r) ==
    [model |-> r.model,
     text |-> IF Len(r.response.text) > FollowupBudget
              THEN SubSeq(r.response.text, 1, FollowupBudget) \o Ellipsis
              ELSE r.response.text]

Stage1Summary(stage1) == [i \in 1..Len(stage1) |-> Summarize(stage1[i])]

\* A resolver that refuses a history without deliberation.
RaisesWithoutDeliberation(history) == LastDeliberation(history) = 0

\* len(r['response']) raises TypeError for a response that is None.
FollowupRaises(history) ==
    LET i == LastDeliberation(history)
    IN i > 0 /\ \E k \in 1..Len(history[i].stage1) :
                   history[i].stage1[k].response.isNone

NoPrompt == [none |-> TRUE]

\* council.py chairman_followup: the content of the one message handed to
\* the chairman, the query alone (lines 371-375) or the template filled with
\* the located deliberation (lines 389-405).
FollowupPrompt(history, followup_query) ==
    LET i == LastDeliberation(history)
    IN IF i = 0
       THEN [context |-> FALSE, followup_query |-> followup_query]
       ELSE [context |-> TRUE,
             original_query |-> OriginalQuery(history, i),
             stage1_summary |-> Stage1Summary(history[i].stage1),
             stage3_response |-> history[i].stage3.response,
             followup_query |-> followup_query]

DirectFailedText == <<"Error: Unable to generate response.">>

\* council.py chairman_followup without a deliberation, lines 376-379.
DirectAnswerFrom(response) ==
    IF response.isNone
    THEN [model |-> CHAIRMAN_MODEL, response |-> Content(DirectFailedText)]
    ELSE [model |-> CHAIRMAN_MODEL, response |-> response.content]

\* The value chairman_followup returns, on either path.
FollowupResult(p, response) ==
    IF p.context THEN FollowupFrom(response) ELSE DirectAnswerFrom(response)

\* council.py generate_conversation_title: None gives the generic title; a
\* response whose content is None raises AttributeError at .strip(); the
\* clean-up of a text (strip, quote removal, cut at 50) is not modelled.
TitleRaises(response) == ~response.isNone /\ response.content.isNone

TitleFrom(response) ==
    IF response.isNone THEN <<"New Conversation">> ELSE response.content.text

\* ----------------------------------------------------------- the store
\* storage add_user_message.
add_user_message(msgs, content) ==
    Append(msgs, [role |-> "user", content |-> content])

\* A store that appends the deliberation record twice.
StoreTwice(msgs, stage1, stage2, stage3) ==
    LET record == [role |-> "assistant", stage1 |-> stage1,
                   stage2 |-> stage2, stage3 |-> stage3]
    IN msgs \o <<record, record>>

\* storage add_assistant_message.
add_assistant_message(msgs, stage1, stage2, stage3) ==
    Append(msgs, [role |-> "assistant", stage1 |-> stage1,
                  stage2 |-> stage2, stage3 |-> stage3])

\* A follow-up that is written into the deliberation it refers to.
RewriteSynthesis(msgs, response) ==
    [msgs EXCEPT ![LastDeliberation(msgs)].stage3 = response]

\* storage add_followup_message.
add_followup_message(msgs, response) ==
    Append(msgs, [role |-> "assistant", type |-> "followup",
                  response |-> response])

\* ------------------------------------------------------------ the state
VARIABLES
    accepts_duplicate_models, \* the stage functions declare duplicate_models
    mode,              \* "sync": send_message, "stream": event_generator,
                       \* "fanout": query_models_parallel called on its own
    pc,                \* where the handler is suspended
    is_first_message,  \* len(conversation["messages"]) == 0 at entry
    messages,          \* the stored conversation's messages
    title,             \* the stored conversation's title
    title_task,        \* the title call: NoTask, Pending or its exchange
    tasks,             \* the gateway calls of the fan-out batches
    chair,             \* the chairman call: NoTask, Pending or its exchange
    chairLog,          \* the exchanges of the chairman calls so far
    calls,             \* gateway calls issued so far, per purpose
    stage1_results, stage2_results, label_to_model, aggregate_rankings,
    stage3_result,     \* the handler's locals
    assigned,          \* the names of the locals assigned so far
    events,            \* the types of the events yielded so far
    returned,          \* the value send_message returned; Unset until then
    fault,             \* the exception raised in the handler, or "none"
    models,            \* the list handed to query_models_parallel
    responses,         \* the mapping query_models_parallel returned
    first,             \* the finished run a second run is compared with
    ranking_text,      \* the argument of parse_ranking_from_text
    parsed_ranking,    \* the list parse_ranking_from_text returned
    label_values,      \* the Python type of label_to_model's values
    prompt,            \* what chairman_followup put into its chairman call
    requests,          \* the requests that share one conversation
    origin,            \* per stored message, the request that stored it
    auth_enabled,      \* auth.py auth_enabled
    allowed_users,     \* GITHUB_ALLOWED_USERS
    sessions,          \* auth.py sessions: token -> username, expires
    now,               \* time.time()
    oauth_state,       \* the browser's oauth_state cookie
    drawn,             \* the secrets drawn so far, tokens and states
    issued,            \* every token ever issued, and how it ended
    auth_reply         \* the outcome of the last auth operation

vars == <<accepts_duplicate_models, mode, pc, is_first_message, messages,
          title, title_task, tasks, chair, chairLog, calls, stage1_results,
          stage2_results, label_to_model, aggregate_rankings, stage3_result,
          assigned, events, returned, fault, models, responses, first,
          ranking_text, parsed_ranking, label_values, prompt, requests,
          origin, auth_enabled, allowed_users, sessions, now, oauth_state,
          drawn, issued, auth_reply>>

raceVars == <<requests, origin>>

authVars == <<auth_enabled, allowed_users, sessions, now, oauth_state,
              drawn, issued, auth_reply>>

Pending == [kind |-> "pending", text |-> <<>>]

NoTask == [kind |-> "none", text |-> <<>>]

Unset == [unset |-> TRUE]

Settled(x) == x.kind \notin {"pending", "none"}

\* The texts a model may answer with, per purpose of the call.
Stage1Texts == {<<"x">>}

Stage2Texts ==
    {<<"x", "Response B", "MARK", "NUM", "SP", "Response A", "NUM", "Response B">>,
     <<"Response B", "x", "Response C">>}

ChairmanTexts == {<<>>, <<"x">>}

TitleTexts == {<<"T">>}

FanOutTexts == {<<"a">>, <<"b">>}

TextsFor(stage) ==
    CASE stage = "stage1" -> Stage1Texts
      [] stage = "stage2" -> Stage2Texts
      [] OTHER -> FanOutTexts

Query == <<"q">>

\* A conversation that already holds one deliberation.
PriorMessages ==
    <<[role |-> "user", content |-> <<"q0">>],
      [role |-> "assistant",
       stage1 |-> <<[model |-> "m1", response |-> Content(<<"x">>)]>>,
       stage2 |-> <<>>,
       stage3 |-> [model |-> CHAIRMAN_MODEL, response |-> Content(<<"x">>)]]>>

\* ------------------------------------------------------------ replay
\* A second run that is compared with a finished first one meets the same
\* outcome at every call the first run made; first = NoFirst otherwise.
NoFirst == [none |-> TRUE]

Replaying == first # NoFirst

\* The exchange x gives the call of model m the result it had in the list
\* of stage results rs, whose entries carry the content under field f.
SameResult(rs, m, x, content(_)) ==
    LET hit == {i \in 1..Len(rs) : rs[i].model = m}
    IN IF hit = {} THEN query_model(x).isNone
       ELSE /\ ~query_model(x).isNone
            /\ query_model(x).content = content(rs[CHOOSE i \in hit : TRUE])

Stage1Content(e) == e.response

Stage2Content(e) == e.ranking

BatchExchanges(t) ==
    LET all == Exchange(TextsFor(t.stage))
    IN IF ~Replaying THEN all
       ELSE IF t.stage = "stage1"
            THEN {x \in all : SameResult(first.stage1, t.model, x, Stage1Content)}
       ELSE IF t.stage = "stage2" /\ first.ranStage2
            THEN {x \in all : SameResult(first.stage2, t.model, x, Stage2Content)}
       ELSE all

ChairmanExchanges ==
    IF Replaying /\ Len(chairLog) < Len(first.chairLog)
    THEN {first.chairLog[Len(chairLog) + 1]}
    ELSE Exchange(ChairmanTexts)

TitleExchanges ==
    IF Replaying THEN {first.title_task} ELSE Exchange(TitleTexts)

\* ----------------------------------------------------------- fan-out
\* openrouter.py query_models_parallel: one query_model coroutine per entry
\* of the list, all handed to asyncio.gather.
GatherStart(stage, ms) ==
    {[stage |-> stage, idx |-> i, model |-> ms[i], out |-> Pending] :
        i \in 1..Len(ms)}

\* A gather that gives up as soon as one call has failed.
GatherFailFast(stage) ==
    \/ \A t \in tasks : t.stage = stage => Settled(t.out)
    \/ \E t \in tasks : t.stage = stage /\ t.out.kind \in FailKinds

\* A gather that returns as soon as one awaitable has finished.
GatherFirstDone(stage) ==
    \/ \A t \in tasks : t.stage # stage
    \/ \E t \in tasks : t.stage = stage /\ Settled(t.out)

\* asyncio.gather returns once every awaitable has finished.
GatherDone(stage) ==
    \A t \in tasks : t.stage = stage => Settled(t.out)

\* The list gather returns: the results in the order of the list.
GatherResults(stage, ms) ==
    [i \in 1..Len(ms) |->
        query_model((CHOOSE t \in tasks : t.stage = stage /\ t.idx = i).out)]

\* The dict query_models_parallel returns.
query_models_parallel(stage, ms) == ZipToDict(ms, GatherResults(stage, ms))

\* The finished coroutines of a batch are gone once the batch has returned.
Reap(stage) == {t \in tasks : t.stage # stage \/ ~Settled(t.out)}

\* One gateway call of a batch comes back (or fails, or times out).
QuerySettle ==
    /\ \E t \in tasks :
         /\ t.out = Pending
         /\ \E x \in BatchExchanges(t) :
              tasks' = (tasks \ {t}) \cup {[t EXCEPT !.out = x]}
    /\ UNCHANGED <<raceVars, authVars>>
    /\ UNCHANGED <<prompt, label_values, ranking_text, parsed_ranking, accepts_duplicate_models, first, assigned, mode, pc, is_first_message,
                   messages, title, title_task, chair, chairLog, calls,
                   stage1_results, stage2_results, label_to_model,
                   aggregate_rankings, stage3_result, events, returned, fault,
                   models, responses>>

\* The title call comes back.
TitleSettle ==
    /\ title_task = Pending
    /\ \E x \in TitleExchanges : title_task' = x
    /\ UNCHANGED <<raceVars, authVars>>
    /\ UNCHANGED <<prompt, label_values, ranking_text, parsed_ranking, accepts_duplicate_models, first, assigned, mode, pc, is_first_message,
                   messages, title, tasks, chair, chairLog, calls,
                   stage1_results, stage2_results, label_to_model,
                   aggregate_rankings, stage3_result, events, returned, fault,
                   models, responses>>

\* The chairman call comes back.
ChairmanSettle ==
    /\ chair = Pending
    /\ \E x \in ChairmanExchanges :
         /\ chair' = x
         /\ chairLog' = Append(chairLog, x)
    /\ UNCHANGED <<raceVars, authVars>>
    /\ UNCHANGED <<prompt, label_values, ranking_text, parsed_ranking, accepts_duplicate_models, first, assigned, mode, pc, is_first_message,
                   messages, title, title_task, tasks, calls, stage1_results,
                   stage2_results, label_to_model, aggregate_rankings,
                   stage3_result, events, returned, fault, models, responses>>

\* ------------------------------------------------------- the handlers
NoCalls == [stage1 |-> 0, stage2 |-> 0, chairman |-> 0, title |-> 0,
            followup |-> 0]

\* main.py passes duplicate_models= to run_full_council and to the three
\* stage functions; a function that declares no such parameter raises
\* TypeError at the call.
CallRaises == ~accepts_duplicate_models

\* A generator that announces Stage 2 before it reports Stage 1.
Stage1EventsSwapped == <<"stage2_start", "stage1_complete">>

\* main.py event_generator: the events yielded around each stage.
Stage1Events == <<"stage1_complete", "stage2_start">>

Stage2Events == <<"stage2_complete", "stage3_start">>

Stage3Events == <<"stage3_complete">>

\* A generator that stores the title without announcing it.
NoTitleEvent == <<>>

TitleEvents == <<"title_complete">>

\* A handler that reports the error and then completes the stream.
OnExceptionThenComplete(evs) == evs \o <<"error", "complete">>

\* main.py event_generator, except Exception: one error event, and the
\* generator ends.
OnException(evs) == Append(evs, "error")

\* main.py send_message: the value returned for a deliberation.
Deliberation(s1, s2, s3, metadata) ==
    [type |-> "deliberation", stage1 |-> s1, stage2 |-> s2, stage3 |-> s3,
     metadata |-> metadata]

Metadata(l2m, agg) == [label_to_model |-> l2m, aggregate_rankings |-> agg]

EmptyMetadata == [empty |-> TRUE]

\* main.py send_message up to its first await: the user message is stored,
\* then the title call (first message) or the follow-up call is made.
SendMessage ==
    /\ mode = "sync" /\ pc = "start"
    /\ messages' = add_user_message(messages, Query)
    /\ IF is_first_message
       THEN /\ title_task' = Pending
            /\ calls' = [calls EXCEPT !.title = @ + 1]
            /\ pc' = "title"
            /\ UNCHANGED <<chair, prompt, fault>>
       ELSE IF FollowupRaises(messages')
       THEN /\ fault' = "TypeError"
            /\ pc' = "raised"
            /\ UNCHANGED <<chair, prompt, calls, title_task>>
       ELSE /\ prompt' = FollowupPrompt(messages', Query)
            /\ chair' = Pending
            /\ calls' = [calls EXCEPT !.followup = @ + 1]
            /\ pc' = "followup"
            /\ UNCHANGED <<title_task, fault>>
    /\ UNCHANGED <<raceVars, authVars>>
    /\ UNCHANGED <<label_values, ranking_text, parsed_ranking,
                   accepts_duplicate_models, first, assigned, mode,
                   is_first_message, title, tasks, chairLog, stage1_results,
                   stage2_results, label_to_model, aggregate_rankings,
                   stage3_result, events, returned, models, responses>>

\* main.py send_message: the title is awaited and stored, then
\* run_full_council is called and Stage 1 starts.
SyncTitleDone ==
    /\ mode = "sync" /\ pc = "title" /\ Settled(title_task)
    /\ LET r == query_model(title_task)
       IN IF TitleRaises(r)
          THEN /\ fault' = "AttributeError"
               /\ pc' = "raised"
               /\ UNCHANGED <<title, tasks, calls>>
          ELSE /\ title' = TitleFrom(r)
               /\ IF CallRaises
                  THEN /\ fault' = "TypeError"
                       /\ pc' = "raised"
                       /\ UNCHANGED <<tasks, calls>>
                  ELSE /\ tasks' = tasks \cup GatherStart("stage1", COUNCIL_MODELS)
                       /\ calls' = [calls EXCEPT !.stage1 = @ + Len(COUNCIL_MODELS)]
                       /\ pc' = "stage1"
                       /\ fault' = fault
    /\ UNCHANGED <<raceVars, authVars>>
    /\ UNCHANGED <<prompt, label_values, ranking_text, parsed_ranking, accepts_duplicate_models, first, assigned, mode, is_first_message, messages,
                   title_task, chair, chairLog, stage1_results,
                   stage2_results, label_to_model, aggregate_rankings,
                   stage3_result, events, returned, models, responses>>

\* council.py run_full_council after Stage 1: an empty result ends the run
\* with the error result (which send_message stores and returns); otherwise
\* Stage 2 starts.
SyncStage1Complete ==
    /\ mode = "sync" /\ pc = "stage1" /\ GatherDone("stage1")
    /\ LET s1 == Stage1From(query_models_parallel("stage1", COUNCIL_MODELS))
       IN /\ stage1_results' = s1
          /\ IF Len(s1) = 0
             THEN /\ stage2_results' = <<>>
                  /\ stage3_result' = AllFailedResult
                  /\ messages' = add_assistant_message(messages, <<>>, <<>>,
                                                       AllFailedResult)
                  /\ returned' = Deliberation(<<>>, <<>>, AllFailedResult,
                                              EmptyMetadata)
                  /\ tasks' = Reap("stage1")
                  /\ pc' = "done"
                  /\ calls' = calls
                  /\ assigned' = assigned \cup {"stage1_results", "stage2_results"}
             ELSE /\ tasks' = Reap("stage1") \cup GatherStart("stage2", COUNCIL_MODELS)
                  /\ calls' = [calls EXCEPT !.stage2 = @ + Len(COUNCIL_MODELS)]
                  /\ pc' = "stage2"
                  /\ assigned' = assigned \cup {"stage1_results"}
                  /\ UNCHANGED <<stage2_results, stage3_result, messages,
                                 returned>>
    /\ UNCHANGED <<raceVars, authVars>>
    /\ UNCHANGED <<prompt, label_values, ranking_text, parsed_ranking, accepts_duplicate_models, first, mode, is_first_message, title,
                   title_task, chair, chairLog, label_to_model,
                   aggregate_rankings, events, fault, models, responses>>

\* council.py run_full_council after Stage 2: the rankings are parsed and
\* aggregated, then the chairman is queried.
SyncStage2Complete ==
    /\ mode = "sync" /\ pc = "stage2" /\ GatherDone("stage2")
    /\ tasks' = Reap("stage2")
    /\ \E rs \in {query_models_parallel("stage2", COUNCIL_MODELS)} :
          IF Stage2Raises(rs)
          THEN /\ fault' = "TypeError"
               /\ pc' = "raised"
               /\ UNCHANGED <<stage2_results, label_to_model,
                              aggregate_rankings, chair, calls,
                              assigned>>
          ELSE /\ stage2_results' = Stage2From(rs)
               /\ label_to_model' = LabelToModel(stage1_results)
               /\ aggregate_rankings' =
                      calculate_aggregate_rankings(stage2_results',
                                                   label_to_model')
               /\ assigned' = assigned \cup {"stage2_results", "label_to_model",
                                               "aggregate_rankings"}
               /\ chair' = Pending
               /\ calls' = [calls EXCEPT !.chairman = @ + 1]
               /\ pc' = "stage3"
               /\ fault' = fault
    /\ UNCHANGED <<raceVars, authVars>>
    /\ UNCHANGED <<prompt, label_values, ranking_text, parsed_ranking, accepts_duplicate_models, first, mode, is_first_message, messages,
                   title, title_task, chairLog, stage1_results, stage3_result,
                   events, returned, models, responses>>

\* council.py stage3_synthesize_final, the retry loop, then send_message:
\* the record is stored and the deliberation returned.
SyncStage3Complete ==
    /\ mode = "sync" /\ pc = "stage3" /\ Settled(chair)
    /\ LET response == query_model(chair)
       IN IF RetryChairman(response, calls.chairman)
          THEN /\ chair' = Pending
               /\ calls' = [calls EXCEPT !.chairman = @ + 1]
               /\ UNCHANGED <<pc, stage3_result, messages, returned>>
          ELSE /\ chair' = NoTask
               /\ stage3_result' = Stage3From(response)
               /\ messages' = add_assistant_message(messages, stage1_results,
                                  stage2_results, Stage3From(response))
               /\ returned' = Deliberation(stage1_results, stage2_results,
                                  Stage3From(response),
                                  Metadata(label_to_model, aggregate_rankings))
               /\ pc' = "done"
               /\ calls' = calls
    /\ UNCHANGED <<raceVars, authVars>>
    /\ UNCHANGED <<prompt, label_values, ranking_text, parsed_ranking, accepts_duplicate_models, first, assigned, mode, is_first_message, title,
                   title_task, tasks, chairLog, stage1_results,
                   stage2_results, label_to_model, aggregate_rankings, events,
                   fault, models, responses>>

\* main.py send_message, the follow-up branch: chairman_followup makes one
\* chairman call; its answer is stored and returned.
SyncFollowupDone ==
    /\ mode = "sync" /\ pc = "followup" /\ Settled(chair)
    /\ chair' = NoTask
    /\ messages' = add_followup_message(messages,
                                        FollowupResult(prompt, query_model(chair)))
    /\ returned' = [type |-> "followup",
                    response |-> FollowupResult(prompt, query_model(chair))]
    /\ pc' = "done"
    /\ UNCHANGED <<raceVars, authVars>>
    /\ UNCHANGED <<prompt, label_values, ranking_text, parsed_ranking, accepts_duplicate_models, first, assigned, mode, is_first_message, title,
                   title_task, tasks, chairLog, calls, stage1_results,
                   stage2_results, label_to_model, aggregate_rankings,
                   stage3_result, events, fault, models, responses>>

\* main.py event_generator up to its first await: the user message is
\* stored, the title task is created for a first message, stage1_start is
\* yielded and stage1_collect_responses is called.
StreamBegin ==
    /\ mode = "stream" /\ pc = "start"
    /\ messages' = add_user_message(messages, Query)
    /\ title_task' = IF is_first_message THEN Pending ELSE title_task
    /\ IF CallRaises
       THEN /\ events' = OnException(Append(events, "stage1_start"))
            /\ fault' = "TypeError"
            /\ pc' = "done"
            /\ tasks' = tasks
            /\ calls' = [calls EXCEPT
                            !.title = @ + (IF is_first_message THEN 1 ELSE 0)]
       ELSE /\ events' = Append(events, "stage1_start")
            /\ tasks' = tasks \cup GatherStart("stage1", COUNCIL_MODELS)
            /\ calls' = [calls EXCEPT
                            !.title = @ + (IF is_first_message THEN 1 ELSE 0),
                            !.stage1 = @ + Len(COUNCIL_MODELS)]
            /\ pc' = "stage1"
            /\ fault' = fault
    /\ UNCHANGED <<raceVars, authVars>>
    /\ UNCHANGED <<prompt, label_values, ranking_text, parsed_ranking, accepts_duplicate_models, first, assigned, mode, is_first_message, title,
                   chair, chairLog, stage1_results, stage2_results,
                   label_to_model, aggregate_rankings, stage3_result,
                   returned, models, responses>>

\* main.py event_generator after Stage 1: stage1_complete and stage2_start
\* are yielded and stage2_collect_rankings is called.
StreamStage1Complete ==
    /\ mode = "stream" /\ pc = "stage1" /\ GatherDone("stage1")
    /\ stage1_results' =
           Stage1From(query_models_parallel("stage1", COUNCIL_MODELS))
    /\ events' = events \o Stage1Events
    /\ tasks' = Reap("stage1") \cup GatherStart("stage2", COUNCIL_MODELS)
    /\ calls' = [calls EXCEPT !.stage2 = @ + Len(COUNCIL_MODELS)]
    /\ pc' = "stage2"
    /\ assigned' = assigned \cup {"stage1_results"}
    /\ UNCHANGED <<raceVars, authVars>>
    /\ UNCHANGED <<prompt, label_values, ranking_text, parsed_ranking, accepts_duplicate_models, first, mode, is_first_message, messages,
                   title, title_task, chair, chairLog, stage2_results,
                   label_to_model, aggregate_rankings, stage3_result,
                   returned, fault, models, responses>>

\* main.py event_generator after Stage 2: the rankings are parsed and
\* aggregated, stage2_complete and stage3_start are yielded and the chairman
\* is queried.
StreamStage2Complete ==
    /\ mode = "stream" /\ pc = "stage2" /\ GatherDone("stage2")
    /\ tasks' = Reap("stage2")
    /\ \E rs \in {query_models_parallel("stage2", COUNCIL_MODELS)} :
          IF Stage2Raises(rs)
          THEN /\ events' = OnException(events)
               /\ fault' = "TypeError"
               /\ pc' = "done"
               /\ UNCHANGED <<stage2_results, label_to_model,
                              aggregate_rankings, chair, calls,
                              assigned>>
          ELSE /\ stage2_results' = Stage2From(rs)
               /\ label_to_model' = LabelToModel(stage1_results)
               /\ aggregate_rankings' =
                      calculate_aggregate_rankings(stage2_results',
                                                   label_to_model')
               /\ events' = events \o Stage2Events
               /\ assigned' = assigned \cup {"stage2_results", "label_to_model",
                                               "aggregate_rankings"}
               /\ chair' = Pending
               /\ calls' = [calls EXCEPT !.chairman = @ + 1]
               /\ pc' = "stage3"
               /\ fault' = fault
    /\ UNCHANGED <<raceVars, authVars>>
    /\ UNCHANGED <<prompt, label_values, ranking_text, parsed_ranking, accepts_duplicate_models, first, mode, is_first_message, messages,
                   title, title_task, chairLog, stage1_results, stage3_result,
                   returned, models, responses>>

\* main.py event_generator after Stage 3: stage3_complete is yielded; with a
\* title task the generator goes on to await it, without one the record is
\* stored and complete is yielded.
StreamStage3Complete ==
    /\ mode = "stream" /\ pc = "stage3" /\ Settled(chair)
    /\ LET response == query_model(chair)
       IN IF RetryChairman(response, calls.chairman)
          THEN /\ chair' = Pending
               /\ calls' = [calls EXCEPT !.chairman = @ + 1]
               /\ UNCHANGED <<pc, stage3_result, messages, events>>
          ELSE /\ chair' = NoTask
               /\ stage3_result' = Stage3From(response)
               /\ calls' = calls
               /\ IF title_task # NoTask
                  THEN /\ events' = events \o Stage3Events
                       /\ pc' = "join"
                       /\ messages' = messages
                  ELSE /\ events' = Append(events \o Stage3Events, "complete")
                       /\ messages' = add_assistant_message(messages,
                              stage1_results, stage2_results,
                              Stage3From(response))
                       /\ pc' = "done"
    /\ UNCHANGED <<raceVars, authVars>>
    /\ UNCHANGED <<prompt, label_values, ranking_text, parsed_ranking, accepts_duplicate_models, first, assigned, mode, is_first_message, title,
                   title_task, tasks, chairLog, stage1_results,
                   stage2_results, label_to_model, aggregate_rankings,
                   returned, fault, models, responses>>

\* main.py event_generator, 'title = await title_task': the title is stored,
\* title_complete is yielded, the record is stored and complete is yielded;
\* an exception of the task is raised here.
StreamTitleJoin ==
    /\ mode = "stream" /\ pc = "join" /\ Settled(title_task)
    /\ LET r == query_model(title_task)
       IN IF TitleRaises(r)
          THEN /\ events' = OnException(events)
               /\ fault' = "AttributeError"
               /\ UNCHANGED <<title, messages>>
          ELSE /\ title' = TitleFrom(r)
               /\ events' = Append(events \o TitleEvents, "complete")
               /\ messages' = add_assistant_message(messages, stage1_results,
                                  stage2_results, stage3_result)
               /\ fault' = fault
    /\ pc' = "done"
    /\ UNCHANGED <<raceVars, authVars>>
    /\ UNCHANGED <<prompt, label_values, ranking_text, parsed_ranking, accepts_duplicate_models, first, assigned, mode, is_first_message,
                   title_task, tasks, chair, chairLog, calls, stage1_results,
                   stage2_results, label_to_model, aggregate_rankings,
                   stage3_result, returned, models, responses>>

\* openrouter.py query_models_parallel called on a list of its own: the
\* coroutines are created and gathered.
FanOutCall ==
    /\ mode = "fanout" /\ pc = "start"
    /\ tasks' = GatherStart("fanout", models)
    /\ pc' = "gather"
    /\ UNCHANGED <<raceVars, authVars>>
    /\ UNCHANGED <<prompt, label_values, ranking_text, parsed_ranking, accepts_duplicate_models, first, assigned, mode, is_first_message, messages,
                   title, title_task, chair, chairLog, calls, stage1_results,
                   stage2_results, label_to_model, aggregate_rankings,
                   stage3_result, events, returned, fault, models, responses>>

\* openrouter.py query_models_parallel returns its mapping (the exchanges of
\* the batch stay in tasks, for the properties to read).
FanOutReturn ==
    /\ mode = "fanout" /\ pc = "gather" /\ GatherDone("fanout")
    /\ responses' = query_models_parallel("fanout", models)
    /\ pc' = "returned"
    /\ UNCHANGED <<raceVars, authVars>>
    /\ UNCHANGED <<prompt, label_values, ranking_text, parsed_ranking, accepts_duplicate_models, first, assigned, mode, is_first_message, messages,
                   title, title_task, tasks, chair, chairLog, calls,
                   stage1_results, stage2_results, label_to_model,
                   aggregate_rankings, stage3_result, events, returned, fault,
                   models>>

\* ------------------------------------------------------ specifications
\* No request is under way in the handlers.
HandlersIdle ==
    /\ pc = "start"
    /\ title = <<"New Conversation">>
    /\ title_task = NoTask
    /\ tasks = {}
    /\ chair = NoTask
    /\ chairLog = <<>>
    /\ calls = NoCalls
    /\ stage1_results = <<>>
    /\ stage2_results = <<>>
    /\ label_to_model = <<>>
    /\ aggregate_rankings = <<>>
    /\ stage3_result = Unset
    /\ assigned = {}
    /\ events = <<>>
    /\ returned = Unset
    /\ fault = "none"
    /\ responses = <<>>
    /\ first = NoFirst
    /\ parsed_ranking = <<>>
    /\ prompt = NoPrompt

NoCookie == "<no cookie>"

NoReply == [op |-> "none"]

\* No requests share the conversation.
RaceIdle ==
    /\ requests = <<>>
    /\ origin = <<>>

\* auth.py at import: no session, no secret drawn.
AuthIdle ==
    /\ sessions = <<>>
    /\ now = 0
    /\ oauth_state = NoCookie
    /\ drawn = [tokens |-> 0, states |-> 0]
    /\ issued = <<>>
    /\ auth_reply = NoReply

\* No GitHub credentials configured: auth is disabled.
AuthOff ==
    /\ auth_enabled = FALSE
    /\ allowed_users = {}

InitCommon ==
    /\ HandlersIdle
    /\ RaceIdle
    /\ AuthIdle
    /\ AuthOff

\* One request, on a new conversation or on one that holds a deliberation.
Init ==
    /\ InitCommon
    /\ accepts_duplicate_models \in BOOLEAN
    /\ mode \in {"sync", "stream"}
    /\ messages \in {<<>>, PriorMessages}
    /\ is_first_message = (Len(messages) = 0)
    /\ models = COUNCIL_MODELS
    /\ ranking_text = NoContent
    /\ label_values = "str"

Next ==
    \/ SendMessage
    \/ SyncTitleDone
    \/ SyncStage1Complete
    \/ SyncStage2Complete
    \/ SyncStage3Complete
    \/ SyncFollowupDone
    \/ StreamBegin
    \/ StreamStage1Complete
    \/ StreamStage2Complete
    \/ StreamStage3Complete
    \/ StreamTitleJoin
    \/ QuerySettle
    \/ TitleSettle
    \/ ChairmanSettle

Spec == Init /\ [][Next]_vars

\* The steps of the two handlers.
HandlerStep ==
    \/ SendMessage
    \/ SyncTitleDone
    \/ SyncStage1Complete
    \/ SyncStage2Complete
    \/ SyncStage3Complete
    \/ SyncFollowupDone
    \/ StreamBegin
    \/ StreamStage1Complete
    \/ StreamStage2Complete
    \/ StreamStage3Complete
    \/ StreamTitleJoin

\* Every gateway call comes back or is abandoned by its timeout
\* (httpx.AsyncClient(timeout=...), openrouter.py line 54), and the event
\* loop resumes a coroutine whose awaitable has finished.
Fairness ==
    /\ WF_vars(QuerySettle)
    /\ WF_vars(TitleSettle)
    /\ WF_vars(ChairmanSettle)
    /\ WF_vars(HandlerStep)

SpecLive == Init /\ [][Next]_vars /\ Fairness

RECURSIVE ListsUpTo(_, _)
\* Every list of at most n entries over the set S.
ListsUpTo(S, n) ==
    IF n = 0 THEN {<<>>}
    ELSE LET shorter == ListsUpTo(S, n - 1)
         IN shorter \cup {Append(l, x) : l \in shorter, x \in S}

\* One call of the dispatcher, on any list of at most MaxBatch identifiers.
InitFanOut ==
    /\ InitCommon
    /\ accepts_duplicate_models = FALSE
    /\ mode = "fanout"
    /\ messages = <<>>
    /\ is_first_message = TRUE
    /\ models \in ListsUpTo({COUNCIL_MODELS[i] : i \in 1..CouncilSize}, MaxBatch)
    /\ ranking_text = NoContent
    /\ label_values = "str"

NextFanOut ==
    \/ FanOutCall
    \/ QuerySettle
    \/ FanOutReturn

SpecFanOut == InitFanOut /\ [][NextFanOut]_vars

\* A finished synchronous run is set aside and the same first message is
\* sent again, to a new conversation, through the streaming endpoint.
SendAgainStreaming ==
    /\ mode = "sync" /\ pc = "done" /\ is_first_message /\ ~Replaying
    /\ first' = [stage1 |-> stage1_results, stage2 |-> stage2_results,
                 stage3 |-> stage3_result, label_to_model |-> label_to_model,
                 aggregate_rankings |-> aggregate_rankings,
                 record |-> messages[Len(messages)],
                 chairLog |-> chairLog, title_task |-> title_task,
                 ranStage2 |-> calls.stage2 > 0]
    /\ mode' = "stream"
    /\ pc' = "start"
    /\ messages' = <<>>
    /\ title' = <<"New Conversation">>
    /\ title_task' = NoTask
    /\ tasks' = {}
    /\ chair' = NoTask
    /\ chairLog' = <<>>
    /\ calls' = NoCalls
    /\ stage1_results' = <<>>
    /\ stage2_results' = <<>>
    /\ label_to_model' = <<>>
    /\ aggregate_rankings' = <<>>
    /\ stage3_result' = Unset
    /\ assigned' = {}
    /\ events' = <<>>
    /\ returned' = Unset
    /\ UNCHANGED <<raceVars, authVars>>
    /\ UNCHANGED <<prompt, label_values, ranking_text, parsed_ranking, accepts_duplicate_models, is_first_message, fault, models,
                   responses>>

\* The same first message through both endpoints, one after the other.
InitBoth ==
    /\ InitCommon
    /\ accepts_duplicate_models = TRUE
    /\ mode = "sync"
    /\ messages = <<>>
    /\ is_first_message = TRUE
    /\ models = COUNCIL_MODELS
    /\ ranking_text = NoContent
    /\ label_values = "str"

NextBoth ==
    \/ SendMessage
    \/ SyncTitleDone
    \/ SyncStage1Complete
    \/ SyncStage2Complete
    \/ SyncStage3Complete
    \/ SendAgainStreaming
    \/ StreamBegin
    \/ StreamStage1Complete
    \/ StreamStage2Complete
    \/ StreamStage3Complete
    \/ StreamTitleJoin
    \/ QuerySettle
    \/ TitleSettle
    \/ ChairmanSettle

SpecBoth == InitBoth /\ [][NextBoth]_vars

\* --------------------------------------------------- the rank extractor
\* Longest text drawn token by token.
MaxText == 4

\* Longest numbered list written after the marker.
MaxRanked == 3

\* The tokens of a critique: the marker, a numbering, whitespace, labels,
\* prose, and the marker in lower case (prose to the extractor).
TextTokens ==
    {"MARK", "NUM", "SP", "Response A", "Response B", "x", "final ranking:"}

ShortTexts == ListsUpTo(TextTokens, MaxText)

RankedLabels == {LabelOf(1), LabelOf(2), LabelOf(3)}

\* One item of the list the ranking prompt asks for: "1. Response A", with
\* or without the space after the period.
NumberedItem(label, space) ==
    <<"NUM">> \o (IF space THEN <<"SP">> ELSE <<>>) \o <<label>>

RECURSIVE NumberedSection(_, _, _, _)
\* The items of a list, each with the whitespace before and after it.
NumberedSection(labels, space, before, after) ==
    IF Len(labels) = 0 THEN <<>>
    ELSE before \o NumberedItem(labels[1], space) \o after
         \o NumberedSection(Tail(labels), space, before, after)

\* Evaluation text a reviewer may write ahead of the marker.
Evaluations ==
    {<<>>, <<"x">>, <<"Response B", "x">>,
     <<"NUM", "SP", "Response C", "final ranking:", "SP">>}

\* What a reviewer may put between the marker and the list.
Asides == {<<>>, <<"Response A">>, <<"x">>}

\* Critiques in the format the ranking prompt asks for, with or without an
\* aside after the marker.
WrittenRankings ==
    {e \o <<"MARK">> \o aside \o NumberedSection(l, space, before, after) :
        e \in Evaluations,
        aside \in Asides,
        l \in ListsUpTo(RankedLabels, MaxRanked) \ {<<>>},
        space \in BOOLEAN,
        before \in {<<>>, <<"SP">>},
        after \in {<<>>, <<"SP">>}}

\* council.py parse_ranking_from_text, called on the content of a response.
ParseRanking ==
    /\ mode = "extract" /\ pc = "start"
    /\ IF ParseRaises(ranking_text)
       THEN /\ fault' = "TypeError"
            /\ pc' = "raised"
            /\ UNCHANGED parsed_ranking
       ELSE /\ parsed_ranking' = parse_ranking_from_text(ranking_text.text)
            /\ pc' = "returned"
            /\ UNCHANGED fault
    /\ UNCHANGED <<raceVars, authVars>>
    /\ UNCHANGED <<accepts_duplicate_models, first, assigned, mode,
                   is_first_message, messages, title, title_task, tasks, chair,
                   chairLog, calls, stage1_results, stage2_results,
                   label_to_model, aggregate_rankings, stage3_result, events,
                   returned, models, responses, ranking_text, label_values,
                   prompt>>

\* One call of the extractor, on any content a response can carry.
InitExtract ==
    /\ InitCommon
    /\ accepts_duplicate_models = FALSE
    /\ mode = "extract"
    /\ messages = <<>>
    /\ is_first_message = TRUE
    /\ models = COUNCIL_MODELS
    /\ ranking_text \in
           {NoContent} \cup {Content(t) : t \in ShortTexts \cup WrittenRankings}
    /\ label_values = "str"

NextExtract == ParseRanking

SpecExtract == InitExtract /\ [][NextExtract]_vars

\* ----------------------------------------------------------- the aggregator
\* The labels reviewers write: two of the deliberation and one of no
\* deliberation.
ReviewLabels == {LabelOf(1), LabelOf(2), "Response X"}

\* The critiques of the reviewers: every run of up to MaxRanked labels, and
\* one in the format of the ranking prompt.
ReviewTexts ==
    ListsUpTo(ReviewLabels, MaxRanked)
        \cup {<<"Response B", "MARK", "NUM", "SP", "Response A",
                "NUM", "SP", "Response X", "NUM", "SP", "Response B">>}

\* A Stage 2 result as stage2_collect_rankings builds it.
Submission(model, text) ==
    [model |-> model, ranking |-> Content(text),
     parsed_ranking |-> parse_ranking_from_text(text)]

\* The Stage 2 results of no, one or two reviewers.
Submissions ==
    {<<>>}
        \cup {<<Submission(ModelNames[1], t)>> : t \in ReviewTexts}
        \cup {<<Submission(ModelNames[1], t), Submission(ModelNames[2], u)>> :
                 t \in ReviewTexts, u \in ReviewTexts}

\* Label mappings whose values are model names.
NameMappings ==
    {<<>>,
     <<<<LabelOf(1), ModelNames[1]>>>>,
     <<<<LabelOf(1), ModelNames[1]>>, <<LabelOf(2), ModelNames[2]>>>>,
     <<<<LabelOf(1), ModelNames[1]>>, <<LabelOf(2), ModelNames[1]>>>>}

\* Label mappings whose values are {model, instance} dicts.
InstanceMappings ==
    {<<<<LabelOf(1), [model |-> ModelNames[1], instance |-> 1]>>>>,
     <<<<LabelOf(1), [model |-> ModelNames[1], instance |-> 1]>>,
       <<LabelOf(2), [model |-> ModelNames[1], instance |-> 2]>>>>}

\* Some label of some re-parsed ranking is a key of the mapping: line 285
\* is reached, where the mapped value becomes a key of model_positions.
ResolvesSome(stage2, mapping) ==
    \E i \in 1..Len(stage2) :
        \E l \in Range(parse_ranking_from_text(stage2[i].ranking.text)) :
            DictHas(mapping, l)

\* An aggregator that fails when there is nothing to average.
RaisesWhenNothingRanked == ~ResolvesSome(stage2_results, label_to_model)

\* A dict is unhashable: model_positions[model_name] raises TypeError.
AggregateRaises ==
    label_values = "dict" /\ ResolvesSome(stage2_results, label_to_model)

\* council.py calculate_aggregate_rankings, called on its own.
Aggregate ==
    /\ mode = "aggregate" /\ pc = "start"
    /\ IF AggregateRaises
       THEN /\ fault' = "TypeError"
            /\ pc' = "raised"
            /\ UNCHANGED aggregate_rankings
       ELSE /\ aggregate_rankings' =
                   calculate_aggregate_rankings(stage2_results, label_to_model)
            /\ pc' = "returned"
            /\ UNCHANGED fault
    /\ UNCHANGED <<raceVars, authVars>>
    /\ UNCHANGED <<accepts_duplicate_models, first, assigned, mode,
                   is_first_message, messages, title, title_task, tasks, chair,
                   chairLog, calls, stage1_results, stage2_results,
                   label_to_model, stage3_result, events, returned, models,
                   responses, ranking_text, parsed_ranking, label_values,
                   prompt>>

\* One call of the aggregator, on any submissions and any mapping.
InitAggregate ==
    /\ pc = "start"
    /\ title = <<"New Conversation">>
    /\ title_task = NoTask
    /\ tasks = {}
    /\ chair = NoTask
    /\ chairLog = <<>>
    /\ calls = NoCalls
    /\ stage1_results = <<>>
    /\ stage2_results \in Submissions
    /\ label_values \in {"str", "dict"}
    /\ label_to_model \in
           (IF label_values = "str" THEN NameMappings ELSE InstanceMappings)
    /\ aggregate_rankings = <<>>
    /\ stage3_result = Unset
    /\ assigned = {}
    /\ events = <<>>
    /\ returned = Unset
    /\ fault = "none"
    /\ responses = <<>>
    /\ first = NoFirst
    /\ parsed_ranking = <<>>
    /\ prompt = NoPrompt
    /\ RaceIdle
    /\ AuthIdle
    /\ AuthOff
    /\ accepts_duplicate_models = FALSE
    /\ mode = "aggregate"
    /\ messages = <<>>
    /\ is_first_message = TRUE
    /\ models = COUNCIL_MODELS
    /\ ranking_text = NoContent

NextAggregate == Aggregate

SpecAggregate == InitAggregate /\ [][NextAggregate]_vars

\* ----------------------------------------------------------- the anonymizer
\* k successful Stage 1 responses; the models repeat from offset r on.
ResponsesOf(k, r) ==
    [i \in 1..k |->
        [model |-> ModelNames[((i + r) % Len(ModelNames)) + 1],
         response |-> Content(<<"x">>)]]

\* council.py stage2_collect_rankings, lines 69-76: the labels and the
\* label -> model mapping of the responses it is handed.
Anonymize ==
    /\ mode = "anonymize" /\ pc = "start"
    /\ label_to_model' = LabelToModel(stage1_results)
    /\ pc' = "returned"
    /\ UNCHANGED <<raceVars, authVars>>
    /\ UNCHANGED <<accepts_duplicate_models, first, assigned, mode,
                   is_first_message, messages, title, title_task, tasks, chair,
                   chairLog, calls, stage1_results, stage2_results,
                   aggregate_rankings, stage3_result, events, returned, fault,
                   models, responses, ranking_text, parsed_ranking,
                   label_values, prompt>>

MaxResponses == 28

\* One run of the anonymizer, on up to MaxResponses responses: more than
\* there are letters.
InitAnonymize ==
    /\ pc = "start"
    /\ title = <<"New Conversation">>
    /\ title_task = NoTask
    /\ tasks = {}
    /\ chair = NoTask
    /\ chairLog = <<>>
    /\ calls = NoCalls
    /\ \E k \in 0..MaxResponses, r \in 0..(Len(ModelNames) - 1) :
           stage1_results = ResponsesOf(k, r)
    /\ stage2_results = <<>>
    /\ label_values = "str"
    /\ label_to_model = <<>>
    /\ aggregate_rankings = <<>>
    /\ stage3_result = Unset
    /\ assigned = {}
    /\ events = <<>>
    /\ returned = Unset
    /\ fault = "none"
    /\ responses = <<>>
    /\ first = NoFirst
    /\ parsed_ranking = <<>>
    /\ prompt = NoPrompt
    /\ RaceIdle
    /\ AuthIdle
    /\ AuthOff
    /\ accepts_duplicate_models = FALSE
    /\ mode = "anonymize"
    /\ messages = <<>>
    /\ is_first_message = TRUE
    /\ models = COUNCIL_MODELS
    /\ ranking_text = NoContent

NextAnonymize == Anonymize

SpecAnonymize == InitAnonymize /\ [][NextAnonymize]_vars

\* ------------------------------------------------- the follow-up resolver
\* Longest history handed to the resolver.
MaxHistory == 3

\* A text of n characters.
Chars(n) == [i \in 1..n |-> "c"]

UserTurn(q) == [role |-> "user", content |-> q]

\* A deliberation with a response over the budget, one at the budget and a
\* synthesis over the budget.
LongDeliberation ==
    [role |-> "assistant",
     stage1 |-> <<[model |-> "m1",
                   response |-> Content(Chars(FollowupBudget + 1))],
                  [model |-> "m2",
                   response |-> Content(Chars(FollowupBudget))]>>,
     stage2 |-> <<>>,
     stage3 |-> [model |-> CHAIRMAN_MODEL,
                 response |-> Content(Chars(FollowupBudget + 2))]]

\* A deliberation whose Stage 1 response has the content None.
NoneDeliberation ==
    [role |-> "assistant",
     stage1 |-> <<[model |-> "m1", response |-> NoContent]>>,
     stage2 |-> <<>>,
     stage3 |-> [model |-> CHAIRMAN_MODEL, response |-> Content(<<"y">>)]]

\* The record of a run in which every Stage 1 call failed.
FailedDeliberation ==
    [role |-> "assistant", stage1 |-> <<>>, stage2 |-> <<>>,
     stage3 |-> AllFailedResult]

FollowupTurn ==
    [role |-> "assistant", type |-> "followup",
     response |-> [model |-> CHAIRMAN_MODEL, response |-> Content(<<"f">>)]]

\* The messages a stored conversation is made of.
Turns ==
    {UserTurn(<<"q0">>), UserTurn(<<"q1">>), PriorMessages[2],
     LongDeliberation, NoneDeliberation, FailedDeliberation, FollowupTurn}

\* council.py chairman_followup up to its await: the scan, the prompt and
\* the one chairman call.
FollowupCall ==
    /\ mode = "followup" /\ pc = "start"
    /\ IF FollowupRaises(messages)
       THEN /\ fault' = "TypeError"
            /\ pc' = "raised"
            /\ UNCHANGED <<chair, prompt, calls>>
       ELSE /\ prompt' = FollowupPrompt(messages, Query)
            /\ chair' = Pending
            /\ calls' = [calls EXCEPT !.followup = @ + 1]
            /\ pc' = "followup"
            /\ UNCHANGED fault
    /\ UNCHANGED <<raceVars, authVars>>
    /\ UNCHANGED <<label_values, ranking_text, parsed_ranking,
                   accepts_duplicate_models, first, assigned, mode,
                   is_first_message, messages, title, title_task, tasks,
                   chairLog, stage1_results, stage2_results, label_to_model,
                   aggregate_rankings, stage3_result, events, returned, models,
                   responses>>

\* council.py chairman_followup after its await: the result or the sentinel.
FollowupReturn ==
    /\ mode = "followup" /\ pc = "followup" /\ Settled(chair)
    /\ returned' = FollowupResult(prompt, query_model(chair))
    /\ pc' = "returned"
    /\ UNCHANGED <<raceVars, authVars>>
    /\ UNCHANGED <<label_values, ranking_text, parsed_ranking,
                   accepts_duplicate_models, first, assigned, mode,
                   is_first_message, messages, title, title_task, tasks, chair,
                   chairLog, calls, stage1_results, stage2_results,
                   label_to_model, aggregate_rankings, stage3_result, events,
                   fault, models, responses, prompt>>

\* One call of the resolver, on any history of at most MaxHistory messages.
InitFollowup ==
    /\ InitCommon
    /\ accepts_duplicate_models = FALSE
    /\ mode = "followup"
    /\ messages \in ListsUpTo(Turns, MaxHistory)
    /\ is_first_message = FALSE
    /\ models = COUNCIL_MODELS
    /\ ranking_text = NoContent
    /\ label_values = "str"

NextFollowup ==
    \/ FollowupCall
    \/ ChairmanSettle
    \/ FollowupReturn

SpecFollowup == InitFollowup /\ [][NextFollowup]_vars

\* --------------------------------------- requests on one conversation
\* Number of message requests sent to the same conversation.
Requests == 2

RaceQueries == <<<<"q1">>, <<"q2">>, <<"q3">>, <<"q4">>>>

\* body.content of request r: every request asks a question of its own.
QueryOf(r) == RaceQueries[r]

\* The handlers' locals that stay as they are while requests race.
handlerVars == <<accepts_duplicate_models, mode, pc, is_first_message,
                 title_task, tasks, chair, chairLog, calls, stage1_results,
                 stage2_results, label_to_model, aggregate_rankings,
                 stage3_result, assigned, events, returned, fault, models,
                 responses, first, ranking_text, parsed_ranking, label_values,
                 prompt>>

\* A request that has not been received yet.
NewRequest(endpoint) ==
    [endpoint |-> endpoint, pc |-> "start", is_first_message |-> FALSE,
     prompt |-> NoPrompt, located |-> 0]

\* What a run hands to add_assistant_message: the stages of a run in which
\* the council answered, and those of a run in which every Stage 1 call
\* failed (the error result in send_message, the chairman's text in the
\* event generator).
AnsweredStages ==
    [stage1 |-> <<[model |-> COUNCIL_MODELS[1], response |-> Content(<<"x">>)]>>,
     stage2 |-> <<>>,
     stage3 |-> [model |-> CHAIRMAN_MODEL, response |-> Content(<<"x">>)]]

RaceStages(endpoint) ==
    {AnsweredStages,
     [stage1 |-> <<>>, stage2 |-> <<>>,
      stage3 |-> IF endpoint = "sync" THEN AllFailedResult
                 ELSE Stage3From(NoResult)]}

RaceTitles == {<<"T">>, <<"New Conversation">>}

RaceExchanges ==
    {[kind |-> "transport_error", text |-> <<>>], [kind |-> "ok", text |-> <<"x">>]}

\* The store appends a message; the request that stored it is noted.
Stored(r, msgs) ==
    /\ messages' = msgs
    /\ origin' = origin \o [i \in 1..(Len(msgs) - Len(messages)) |-> r]

\* main.py send_message up to its first await (lines 100-113, 138-143): the
\* conversation is read, the user message stored, and the title call or
\* the follow-up's chairman call is awaited.
RaceSendMessage(r) ==
    /\ mode = "race"
    /\ requests[r].endpoint = "sync" /\ requests[r].pc = "start"
    /\ Stored(r, add_user_message(messages, QueryOf(r)))
    /\ LET history == add_user_message(messages, QueryOf(r))
       IN requests' =
              [requests EXCEPT ![r] =
                  IF Len(messages) = 0
                  THEN [@ EXCEPT !.is_first_message = TRUE, !.pc = "title"]
                  ELSE [@ EXCEPT !.pc = "followup",
                                 !.prompt = FollowupPrompt(history, QueryOf(r)),
                                 !.located = LastDeliberation(history)]]
    /\ UNCHANGED <<title, handlerVars, authVars>>

\* main.py send_message, lines 113-119: the title is stored and
\* run_full_council is called and awaited.
RaceTitleDone(r) ==
    /\ mode = "race"
    /\ requests[r].endpoint = "sync" /\ requests[r].pc = "title"
    /\ \E t \in RaceTitles : title' = t
    /\ requests' = [requests EXCEPT ![r].pc =
                       IF CallRaises THEN "raised" ELSE "council"]
    /\ UNCHANGED <<messages, origin, handlerVars, authVars>>

\* main.py send_message, lines 116-134: run_full_council returns and its
\* stages are stored.
RaceCouncilDone(r) ==
    /\ mode = "race"
    /\ requests[r].endpoint = "sync" /\ requests[r].pc = "council"
    /\ \E s \in RaceStages("sync") :
           Stored(r, add_assistant_message(messages, s.stage1, s.stage2,
                                           s.stage3))
    /\ requests' = [requests EXCEPT ![r].pc = "done"]
    /\ UNCHANGED <<title, handlerVars, authVars>>

\* main.py send_message, lines 140-150: chairman_followup returns and its
\* answer is stored.
RaceFollowupDone(r) ==
    /\ mode = "race"
    /\ requests[r].endpoint = "sync" /\ requests[r].pc = "followup"
    /\ \E x \in RaceExchanges :
           Stored(r, add_followup_message(messages,
                         FollowupResult(requests[r].prompt, query_model(x))))
    /\ requests' = [requests EXCEPT ![r].pc = "done"]
    /\ UNCHANGED <<title, handlerVars, authVars>>

\* main.py send_message_stream, lines 160-221: the conversation is read and
\* the StreamingResponse returned; the generator has not run yet.
RaceStreamOpen(r) ==
    /\ mode = "race"
    /\ requests[r].endpoint = "stream" /\ requests[r].pc = "start"
    /\ requests' = [requests EXCEPT ![r] =
                       [@ EXCEPT !.is_first_message = (Len(messages) = 0),
                                 !.pc = "open"]]
    /\ UNCHANGED <<messages, origin, title, handlerVars, authVars>>

\* main.py event_generator, lines 170-179: the user message is stored, the
\* title task created and Stage 1 called.
RaceStreamBegin(r) ==
    /\ mode = "race"
    /\ requests[r].endpoint = "stream" /\ requests[r].pc = "open"
    /\ Stored(r, add_user_message(messages, QueryOf(r)))
    /\ requests' = [requests EXCEPT ![r].pc =
                       IF CallRaises THEN "done" ELSE "stages"]
    /\ UNCHANGED <<title, handlerVars, authVars>>

\* main.py event_generator, lines 179-212: the stages and the title task
\* have come back; the title and the record are stored and complete is
\* yielded, or an exception ends the stream with error.
RaceStreamEnd(r) ==
    /\ mode = "race"
    /\ requests[r].endpoint = "stream" /\ requests[r].pc = "stages"
    /\ \/ /\ \E s \in RaceStages("stream") :
                 Stored(r, add_assistant_message(messages, s.stage1, s.stage2,
                                                 s.stage3))
          /\ IF requests[r].is_first_message
             THEN \E t \in RaceTitles : title' = t
             ELSE title' = title
       \/ UNCHANGED <<messages, origin, title>>
    /\ requests' = [requests EXCEPT ![r].pc = "done"]
    /\ UNCHANGED <<handlerVars, authVars>>

\* Requests message requests, each through either endpoint, on a new
\* conversation.
InitRace ==
    /\ HandlersIdle
    /\ AuthIdle
    /\ AuthOff
    /\ accepts_duplicate_models \in BOOLEAN
    /\ mode = "race"
    /\ messages = <<>>
    /\ origin = <<>>
    /\ is_first_message = TRUE
    /\ models = COUNCIL_MODELS
    /\ ranking_text = NoContent
    /\ label_values = "str"
    /\ \E e \in [1..Requests -> {"sync", "stream"}] :
           requests = [r \in 1..Requests |-> NewRequest(e[r])]

NextRace ==
    \E r \in 1..Requests :
        \/ RaceSendMessage(r)
        \/ RaceTitleDone(r)
        \/ RaceCouncilDone(r)
        \/ RaceFollowupDone(r)
        \/ RaceStreamOpen(r)
        \/ RaceStreamBegin(r)
        \/ RaceStreamEnd(r)

SpecRace == InitRace /\ [][NextRace]_vars

\* ------------------------------------------------------------------ auth
\* auth.py: the session store, the GitHub OAuth handlers and verify_auth.
\* config.py in src defines none of GITHUB_CLIENT_ID, GITHUB_CLIENT_SECRET,
\* GITHUB_ALLOWED_USERS, so auth_enabled and allowed_users are any value
\* a configuration can give them.

\* SESSION_DURATION = 7 * 24 * 60 * 60, in seconds.
SESSION_DURATION == 604800

\* The number of secrets of each kind that are drawn.
MaxSecrets == 1

\* The number of steps the clock takes.
MaxClock == 2

\* Python None.
None == "<None>"

\* secrets.token_urlsafe(32): the i-th session token drawn. Each draw is a
\* fresh value.
SessionTokens == <<"token-1", "token-2", "token-3", "token-4">>

\* secrets.token_urlsafe(16): the i-th state value drawn.
StateValues == <<"state-1", "state-2", "state-3", "state-4">>

\* A request without an Authorization header.
NoHeader == [present |-> FALSE, scheme |-> "", rest |-> ""]

\* An Authorization header: its first seven characters and what follows.
Header(scheme, rest) == [present |-> TRUE, scheme |-> scheme, rest |-> rest]

\* The token values a client sends: the tokens issued, an empty string and
\* a value that was never issued.
PresentedTokens ==
    {SessionTokens[i] : i \in 1..MaxSecrets} \cup {"", "forged"}

\* The requests of the session endpoints: a session cookie or none and no
\* Authorization header, or a header next to a cookie that is absent, empty,
\* unknown or the first token.
AuthRequests ==
    [cookie : PresentedTokens \cup {NoCookie}, authorization : {NoHeader}]
        \cup [cookie : {NoCookie, "", "forged", SessionTokens[1]},
              authorization :
                  {Header("Basic x", SessionTokens[1])}
                      \cup {Header("Bearer ", SessionTokens[i]) :
                                i \in 1..MaxSecrets}]

\* The state query parameter of a callback: a value login drew, the empty
\* string, a value of the caller's own, or no parameter at all.
MissingParameter == "<missing>"

CallbackStates ==
    {StateValues[i] : i \in 1..MaxSecrets}
        \cup {"", "forged", MissingParameter}

\* What GitHub answers to the callback's two calls: one of the failures,
\* or the login of the user the code belongs to.
GitHubFailures ==
    {"exchange_failed", "no_access_token", "user_info_failed", "no_username"}

GitHubUsers == {"alice", "mallory"}

\* del d[k].
DictDel(d, k) == SelectSeq(d, LAMBDA pair : pair[1] # k)

\* create_session_token: the store after sessions[token] = {...}.
create_session_token(username, token, store, t) ==
    DictSet(store, token,
            [username |-> username, expires |-> t + SESSION_DURATION])

\* A validation that never looks at the expiry.
ValidateIgnoringExpiry(token, store, t) ==
    IF token \in {None, ""} \/ ~DictHas(store, token)
    THEN [username |-> None, sessions |-> store]
    ELSE [username |-> DictGet(store, token).username, sessions |-> store]

\* validate_session_token: the username returned and the store left.
validate_session_token(token, store, t) ==
    IF token \in {None, ""} \/ ~DictHas(store, token)
    THEN [username |-> None, sessions |-> store]
    ELSE IF t > DictGet(store, token).expires
         THEN [username |-> None, sessions |-> DictDel(store, token)]
         ELSE [username |-> DictGet(store, token).username,
               sessions |-> store]

\* get_session_token: the cookie when it is set and not empty, else what
\* follows "Bearer " in the Authorization header, else None.
get_session_token(request) ==
    IF request.cookie \notin {NoCookie, ""} THEN request.cookie
    ELSE IF /\ request.authorization.present
            /\ request.authorization.scheme = "Bearer "
         THEN request.authorization.rest
         ELSE None

\* The history of a token that create_session_token hands out.
Issue(token, username, t) ==
    Append(issued, [token |-> token, username |-> username,
                    expires |-> t + SESSION_DURATION,
                    ended |-> FALSE, found_expired |-> FALSE])

\* The history after logout deleted the token from the store.
MarkEnded(token) ==
    [i \in 1..Len(issued) |->
        IF issued[i].token = token
        THEN [issued[i] EXCEPT !.ended = TRUE] ELSE issued[i]]

\* The history after a validation found the token expired.
MarkExpired(token, store, t) ==
    [i \in 1..Len(issued) |->
        IF /\ issued[i].token = token
           /\ DictHas(store, token)
           /\ t > DictGet(store, token).expires
        THEN [issued[i] EXCEPT !.found_expired = TRUE] ELSE issued[i]]

\* The steps the clock has taken to reach t.
ClockSteps(t) == (t \div SESSION_DURATION) + (t % SESSION_DURATION)

authConfig == <<auth_enabled, allowed_users>>

\* time.time() moves on, by a second or by a whole session lifetime; the
\* last reply has been delivered by then.
Tick(d) ==
    /\ mode = "auth"
    /\ ClockSteps(now) < MaxClock
    /\ now' = now + d
    /\ auth_reply' = NoReply
    /\ UNCHANGED <<handlerVars, messages, title, raceVars, authConfig,
                   sessions, oauth_state, drawn, issued>>

\* GET /auth/login.
Login ==
    /\ mode = "auth"
    /\ IF ~auth_enabled
       THEN /\ auth_reply' = [op |-> "login", status |-> 400]
            /\ UNCHANGED <<oauth_state, drawn>>
       ELSE /\ drawn.states < MaxSecrets
            /\ \E state \in {StateValues[drawn.states + 1]} :
                  /\ oauth_state' = state
                  /\ auth_reply' =
                         [op |-> "login", status |-> 307, state |-> state]
            /\ drawn' = [drawn EXCEPT !.states = @ + 1]
    /\ UNCHANGED <<handlerVars, messages, title, raceVars, authConfig,
                   sessions, now, issued>>

\* The reply of a callback that created no session.
CallbackRefused(status, state) ==
    [op |-> "oauth_callback", status |-> status, state |-> state,
     cookie |-> oauth_state, session |-> None]

\* GET /auth/callback?code=..&state=..: the handler never reads the
\* oauth_state cookie of the request.
OAuthCallback(state, github) ==
    /\ mode = "auth"
    /\ IF state = MissingParameter
       THEN /\ auth_reply' = CallbackRefused(422, state)
            /\ UNCHANGED <<sessions, oauth_state, drawn, issued>>
       ELSE IF ~auth_enabled
       THEN /\ auth_reply' = CallbackRefused(400, state)
            /\ UNCHANGED <<sessions, oauth_state, drawn, issued>>
       ELSE IF github \in GitHubFailures
       THEN /\ auth_reply' = CallbackRefused(400, state)
            /\ UNCHANGED <<sessions, oauth_state, drawn, issued>>
       ELSE IF allowed_users # {} /\ github \notin allowed_users
       THEN /\ auth_reply' = CallbackRefused(403, state)
            /\ UNCHANGED <<sessions, oauth_state, drawn, issued>>
       ELSE /\ drawn.tokens < MaxSecrets
            /\ \E session_token \in {SessionTokens[drawn.tokens + 1]} :
                  /\ sessions' = create_session_token(github, session_token,
                                                      sessions, now)
                  /\ issued' = Issue(session_token, github, now)
                  /\ auth_reply' =
                         [op |-> "oauth_callback", status |-> 307,
                          state |-> state, cookie |-> oauth_state,
                          session |-> session_token]
            /\ drawn' = [drawn EXCEPT !.tokens = @ + 1]
            /\ oauth_state' = NoCookie
    /\ UNCHANGED <<handlerVars, messages, title, raceVars, authConfig, now>>

\* The reply of an operation that looked a session up.
SessionReply(op, status, request, token, username) ==
    [op |-> op, status |-> status, request |-> request, token |-> token,
     username |-> username]

\* verify_auth, the dependency of the protected endpoints.
VerifyAuth(request) ==
    /\ mode = "auth"
    /\ IF ~auth_enabled
       THEN /\ auth_reply' = SessionReply("verify_auth", 200, request,
                                          None, None)
            /\ UNCHANGED <<sessions, issued>>
       ELSE \E token \in {get_session_token(request)} :
            \E valid \in {validate_session_token(token, sessions, now)} :
               /\ sessions' = valid.sessions
               /\ issued' = MarkExpired(token, sessions, now)
               /\ auth_reply' =
                      SessionReply("verify_auth",
                                   IF valid.username \in {None, ""}
                                   THEN 401 ELSE 200,
                                   request, token, valid.username)
    /\ UNCHANGED <<handlerVars, messages, title, raceVars, authConfig, now,
                   oauth_state, drawn>>

\* GET /auth/status.
AuthStatus(request) ==
    /\ mode = "auth"
    /\ IF ~auth_enabled
       THEN /\ auth_reply' = SessionReply("auth_status", 200, request,
                                          None, None)
            /\ UNCHANGED <<sessions, issued>>
       ELSE \E token \in {get_session_token(request)} :
            \E valid \in {validate_session_token(token, sessions, now)} :
               /\ sessions' = valid.sessions
               /\ issued' = MarkExpired(token, sessions, now)
               /\ auth_reply' = SessionReply("auth_status", 200, request,
                                             token, valid.username)
    /\ UNCHANGED <<handlerVars, messages, title, raceVars, authConfig, now,
                   oauth_state, drawn>>

\* POST /auth/logout.
Logout(request) ==
    /\ mode = "auth"
    /\ \E token \in {get_session_token(request)} :
          /\ IF token \notin {None, ""} /\ DictHas(sessions, token)
             THEN /\ sessions' = DictDel(sessions, token)
                  /\ issued' = MarkEnded(token)
             ELSE UNCHANGED <<sessions, issued>>
          /\ auth_reply' = SessionReply("logout", 200, request, token, None)
    /\ UNCHANGED <<handlerVars, messages, title, raceVars, authConfig, now,
                   oauth_state, drawn>>

InitAuth ==
    /\ HandlersIdle
    /\ RaceIdle
    /\ AuthIdle
    /\ auth_enabled \in BOOLEAN
    /\ allowed_users \in {{}, {"alice"}}
    /\ accepts_duplicate_models = FALSE
    /\ mode = "auth"
    /\ messages = <<>>
    /\ is_first_message = TRUE
    /\ models = COUNCIL_MODELS
    /\ ranking_text = NoContent
    /\ label_values = "str"

NextAuth ==
    \/ \E d \in {1, SESSION_DURATION} : Tick(d)
    \/ Login
    \/ \E state \in CallbackStates, github \in GitHubFailures \cup GitHubUsers :
           OAuthCallback(state, github)
    \/ \E request \in AuthRequests : VerifyAuth(request)
    \/ \E request \in AuthRequests : AuthStatus(request)
    \/ \E request \in AuthRequests : Logout(request)

SpecAuth == InitAuth /\ [][NextAuth]_vars

\* ------------------------------------------------------------ properties
IsPrefix(a, b) == Len(a) <= Len(b) /\ SubSeq(b, 1, Len(a)) = a

\* The events of a stream that ends well, with or without the title event.
FullStream(withTitle) ==
    <<"stage1_start", "stage1_complete", "stage2_start", "stage2_complete",
      "stage3_start", "stage3_complete">>
        \o (IF withTitle THEN <<"title_complete">> ELSE <<>>)
        \o <<"complete">>

PendingStages ==
    {t.stage : t \in {u \in tasks : u.out = Pending}}
        \cup (IF chair = Pending /\ pc = "stage3" THEN {"stage3"} ELSE {})

\* C2: the calls in flight belong to one stage; while a Stage 2 call exists
\* every Stage 1 call has settled and the Stage 1 results are assigned; and
\* while the Stage 3 chairman call is in flight no batch call is pending and
\* the Stage 2 results and the aggregate have been computed.
C2_StagesSequential ==
    /\ Cardinality(PendingStages) <= 1
    /\ (\E t \in tasks : t.stage = "stage2") =>
           /\ \A u \in tasks : u.stage = "stage1" => Settled(u.out)
           /\ "stage1_results" \in assigned
    /\ (chair = Pending /\ pc = "stage3") =>
           /\ \A u \in tasks : Settled(u.out)
           /\ {"stage2_results", "aggregate_rankings"} \subseteq assigned

\* Stage 2 calls in flight in synchronous mode after a Stage 1 failure.
C2_Witness ==
    /\ mode = "sync"
    /\ \E t \in tasks : t.stage = "stage2" /\ t.out = Pending
    /\ \E t \in tasks : t.stage = "stage2" /\ Settled(t.out)
    /\ Len(stage1_results) = CouncilSize - 1

\* The terminal failed state: the "all models failed" result.
Failed == stage3_result = AllFailedResult

Stage3Finished == stage3_result # Unset /\ ~Failed

\* C5: Stage 3 never queries the chairman more than twice, and once Stage 3
\* has produced its result the chairman was queried once if the first attempt
\* returned a result and twice if it returned none.
C5_ChairmanAttempts ==
    /\ calls.chairman <= 2
    /\ Stage3Finished =>
           /\ Len(chairLog) = calls.chairman
           /\ calls.chairman =
                  (IF query_model(chairLog[1]).isNone THEN 2 ELSE 1)

\* Stage 3 finished on the second attempt, after a first one without result.
C5_Witness ==
    /\ Stage3Finished
    /\ calls.chairman = 2
    /\ query_model(chairLog[1]).isNone
    /\ ~query_model(chairLog[2]).isNone

ChairmanExhausted ==
    /\ calls.chairman = ChairmanAttempts
    /\ Len(chairLog) = ChairmanAttempts
    /\ \A i \in 1..Len(chairLog) : query_model(chairLog[i]).isNone

Count(seq, x) == Cardinality({i \in 1..Len(seq) : seq[i] = x})

\* C7: a stream has an error event exactly when an exception was raised in
\* the generator; then there is one error event, it is the last event, and
\* the generator has ended.
C7_SingleErrorEvent ==
    mode = "stream" =>
        /\ (fault # "none") <=> (Count(events, "error") > 0)
        /\ fault # "none" =>
               /\ Count(events, "error") = 1
               /\ events[Len(events)] = "error"
               /\ Count(events, "complete") = 0
               /\ pc = "done"

\* A stream ended by the exception Stage 2 raised.
C7_Witness ==
    /\ mode = "stream" /\ fault = "TypeError"
    /\ events = <<"stage1_start", "stage1_complete", "stage2_start", "error">>

Distinct(seq) ==
    \A i, j \in 1..Len(seq) : seq[i] = seq[j] => i = j

\* The exchange of the i-th call of the dispatcher's batch.
ExchangeOf(i) == (CHOOSE t \in tasks : t.stage = "fanout" /\ t.idx = i).out

\* The returned mapping has one key per entry of the requested list, each
\* mapped to the result of that entry's own call (None for a failed call).
OneKeyPerCall ==
    /\ Len(responses) = Len(models)
    /\ \A i \in 1..Len(models) :
          /\ DictHas(responses, models[i])
          /\ DictGet(responses, models[i]) = query_model(ExchangeOf(i))

\* C8 as stated: for every requested list the returned mapping has one key
\* per entry, each mapped to its own call's result.
C8_EveryList == pc = "returned" => OneKeyPerCall

\* C8, amended: for every list of pairwise distinct identifiers the returned
\* mapping has one key per entry, each mapped to its own call's result, None
\* exactly for the calls that returned None.
C8_DistinctList == (pc = "returned" /\ Distinct(models)) => OneKeyPerCall

\* A returned mapping for two models, the first failed and the second not.
C8_Witness ==
    /\ pc = "returned" /\ Distinct(models) /\ Len(models) = 2
    /\ DictGet(responses, models[1]) = NoResult
    /\ DictGet(responses, models[2]) = [isNone |-> FALSE, content |-> Content(<<"a">>)]

\* C9: from the call to the return the batch holds one call per entry of the
\* list (none is dropped or cancelled); the batch returns only when every
\* call has settled with its own outcome; it raises nothing, and when every
\* call failed the mapping it returns has no successful entry.
C9_FailuresIsolated ==
    /\ pc \in {"gather", "returned"} =>
           {t.idx : t \in tasks} = 1..Len(models)
    /\ pc = "returned" =>
           /\ \A t \in tasks : Settled(t.out)
           /\ fault = "none"
           /\ (\A t \in tasks : t.out.kind \in FailKinds) =>
                  /\ Stage1From(responses) = <<>>
                  /\ \A i \in 1..Len(models) : DictHas(responses, models[i])

\* A batch of two calls that both failed, returned.
C9_Witness ==
    /\ pc = "returned" /\ Len(models) = 2 /\ Distinct(models)
    /\ \A t \in tasks : t.out.kind \in FailKinds
    /\ Len(responses) = 2
    /\ Stage1From(responses) = <<>>

\* C10: a call that met a transport error, a non-success status, or a
\* message without content field gives the gateway's "no result".
C10_FailureIsNoResult ==
    \A t \in tasks :
        t.out.kind \in {"transport_error", "bad_status", "no_content"} =>
            query_model(t.out) = NoResult

NotSpace(t) == t # "SP"

Unspaced(s) == SelectSeq(s, NotSpace)

MarkerCount(s) == Cardinality({i \in 1..Len(s) : s[i] = "MARK"})

BeforeMarker(s) == SubSeq(s, 1, (CHOOSE i \in 1..Len(s) : s[i] = "MARK") - 1)

AfterMarker(s) ==
    SubSeq(s, (CHOOSE i \in 1..Len(s) : s[i] = "MARK") + 1, Len(s))

\* A non-empty numbered list of labels and nothing else but whitespace.
IsNumberedList(sec) ==
    LET u == Unspaced(sec)
    IN /\ Len(u) >= 2
       /\ Len(u) % 2 = 0
       /\ \A i \in 1..Len(u) :
            IF i % 2 = 1 THEN u[i] = "NUM" ELSE IsLabel(u[i])

ListedLabels(sec) ==
    LET u == Unspaced(sec) IN [i \in 1..(Len(u) \div 2) |-> u[2 * i]]

Extracted == mode = "extract" /\ pc = "returned"

RECURSIVE Mentions(_)
\* The label tokens of a text, one per occurrence, in textual order.
Mentions(s) ==
    IF Len(s) = 0 THEN <<>>
    ELSE (IF IsLabel(Head(s)) THEN <<Head(s)>> ELSE <<>>) \o Mentions(Tail(s))

\* C12: when the exact marker 'FINAL RANKING:' does not occur in the text (a
\* lower-case marker is prose), the extractor returns the label tokens of
\* the whole text in their order of appearance, numbered or not.
C12_NoMarkerScansWholeText ==
    (Extracted /\ MarkerCount(ranking_text.text) = 0)
        => parsed_ranking = Mentions(ranking_text.text)

\* A lower-case marker followed by a numbered and a bare label.
C12_Witness ==
    /\ Extracted
    /\ ranking_text.text = <<"final ranking:", "NUM", "Response B", "Response A">>
    /\ parsed_ranking = <<"Response B", "Response A">>

\* ---------------------------------------------------------------- C13
\* The label at position j is the label of a numbered item: a numbering
\* precedes it with nothing but whitespace in between.
IsNumberedAt(s, j) ==
    /\ IsLabel(s[j])
    /\ \E i \in 1..(j - 1) :
         s[i] = "NUM" /\ \A k \in (i + 1)..(j - 1) : s[k] = "SP"

RECURSIVE NumberedMentionsFrom(_, _)
NumberedMentionsFrom(s, j) ==
    IF j > Len(s) THEN <<>>
    ELSE (IF IsNumberedAt(s, j) THEN <<s[j]>> ELSE <<>>)
         \o NumberedMentionsFrom(s, j + 1)

\* The labels of the numbered items of a text, in textual order.
NumberedMentions(s) == NumberedMentionsFrom(s, 1)

C14_ExtractionNeverRaises ==
    (mode = "extract" /\ pc # "start")
        => /\ pc = "returned"
           /\ fault = "none"
           /\ (Mentions(ranking_text.text) = <<>> => parsed_ranking = <<>>)

\* ---------------------------------------------------------------- C15
Aggregated == mode = "aggregate" /\ pc = "returned" /\ label_values = "str"

\* The models the mapping names.
MappedModels == {label_to_model[i][2] : i \in 1..Len(label_to_model)}

\* The positions recorded for model m: one <<reviewer, position>> pair per
\* place of a reviewer's parsed ranking whose label the mapping resolves
\* to m.
Hits(m) ==
    {h \in UNION {{<<i, p>> : p \in 1..Len(stage2_results[i].parsed_ranking)} :
                     i \in 1..Len(stage2_results)} :
        LET label == stage2_results[h[1]].parsed_ranking[h[2]]
        IN \E k \in 1..Len(label_to_model) :
               label_to_model[k] = <<label, m>>}

RECURSIVE SumOfPositions(_)
SumOfPositions(H) ==
    IF H = {} THEN 0
    ELSE LET h == CHOOSE x \in H : TRUE IN h[2] + SumOfPositions(H \ {h})

Abs(x) == IF x < 0 THEN -x ELSE x

EntriesOf(m) ==
    {k \in 1..Len(aggregate_rankings) : aggregate_rankings[k].model = m}

HitBefore(h, g) == h[1] < g[1] \/ (h[1] = g[1] /\ h[2] < g[2])

\* The place at which model m was first encountered.
FirstHit(m) == CHOOSE h \in Hits(m) : \A g \in Hits(m) : h = g \/ HitBefore(h, g)

ResolvedPlaces == UNION {Hits(m) : m \in MappedModels}

RECURSIVE SumOfCounts(_)
SumOfCounts(entries) ==
    IF Len(entries) = 0 THEN 0
    ELSE entries[1].rankings_count + SumOfCounts(Tail(entries))

SomeLabelResolves ==
    \E i \in 1..Len(stage2_results) :
        \E p \in 1..Len(stage2_results[i].parsed_ranking) :
            \E k \in 1..Len(label_to_model) :
                label_to_model[k][1] = stage2_results[i].parsed_ranking[p]

\* C18: with no submission, with no label in any submission, or with no
\* label that the mapping resolves, the aggregator returns the empty list
\* and raises nothing, whatever the values of the mapping are.
C18_NothingToAggregate ==
    (mode = "aggregate" /\ pc # "start" /\ ~SomeLabelResolves)
        => /\ pc = "returned"
           /\ fault = "none"
           /\ aggregate_rankings = <<>>

\* Two reviewers rank, the mapping has an entry, and no label resolves.
C18_Witness ==
    /\ mode = "aggregate" /\ pc = "returned"
    /\ Len(stage2_results) = 2
    /\ stage2_results[1].parsed_ranking = <<"Response B", "Response X">>
    /\ stage2_results[2].parsed_ranking = <<>>
    /\ label_to_model = <<<<"Response A", "m1">>>>
    /\ aggregate_rankings = <<>>

\* ---------------------------------------------------------------- C19
\* The values of the mapping that some parsed label resolves to.
ResolvedValues ==
    {label_to_model[k][2] :
        k \in {j \in 1..Len(label_to_model) :
                  \E i \in 1..Len(stage2_results) :
                      \E p \in 1..Len(stage2_results[i].parsed_ranking) :
                          label_to_model[j][1] =
                              stage2_results[i].parsed_ranking[p]}}

\* C19: with {model, instance} values the aggregator returns one entry per
\* distinct (model, instance) pair that was ranked, each carrying its
\* instance; with bare model names it returns one entry per ranked model,
\* each carrying instance 1; it raises in neither case.
C19_InstancesRankedSeparately ==
    (mode = "aggregate" /\ pc # "start")
        => /\ pc = "returned"
           /\ Len(aggregate_rankings) = Cardinality(ResolvedValues)
           /\ \A k \in 1..Len(aggregate_rankings) :
                  /\ "instance" \in DOMAIN aggregate_rankings[k]
                  /\ label_values = "str"
                         => aggregate_rankings[k].instance = 1

\* ---------------------------------------------------------------- C20
Anonymized == mode = "anonymize" /\ pc = "returned"

\* C20: for k successful Stage 1 responses, k at most 26, the mapping has
\* exactly k entries; the i-th entry maps the i-th label of 'Response A',
\* 'Response B', ... to the model of the i-th response, and the labels are
\* pairwise distinct.
C20_LabelsInResponseOrder ==
    (Anonymized /\ Len(stage1_results) <= Len(LabelNames)) =>
        /\ Len(label_to_model) = Len(stage1_results)
        /\ Len(label_to_model) >= 1 => label_to_model[1][1] = "Response A"
        /\ \A i \in 1..Len(label_to_model) :
               /\ label_to_model[i][1] = LabelNames[i]
               /\ label_to_model[i][2] = stage1_results[i].model
        /\ \A i \in 1..Len(label_to_model) :
               \A j \in 1..Len(label_to_model) :
                   i # j => label_to_model[i][1] # label_to_model[j][1]

\* Twenty-six responses: the last one is 'Response Z'.
C20_Witness ==
    /\ Anonymized
    /\ Len(stage1_results) = 26
    /\ stage1_results[1].model = "m3"
    /\ label_to_model[1] = <<"Response A", "m3">>
    /\ label_to_model[26] = <<"Response Z", stage1_results[26].model>>

\* ---------------------------------------------------------------- C21
\* C21: a message sent to a conversation that holds a deliberation is
\* answered by the follow-up resolver in both entry points: when the
\* request is over exactly one chairman call was issued and no Stage 1 or
\* Stage 2 call.
C21_FollowupSkipsPipeline ==
    (mode \in {"sync", "stream"} /\ ~is_first_message /\ pc = "done")
        => /\ calls.stage1 = 0
           /\ calls.stage2 = 0
           /\ calls.followup + calls.chairman = 1

\* ---------------------------------------------------------------- C22
\* The message carries Stage 1/2/3 content: it is an assistant message
\* with stage1, stage2 and stage3, and its stage1 holds a response.
CarriesStages(msg) ==
    /\ msg.role = "assistant"
    /\ {"stage1", "stage2", "stage3"} \subseteq DOMAIN msg
    /\ Len(msg.stage1) > 0

FollowupAsked == mode = "followup" /\ pc \in {"followup", "returned"}

\* C22: the resolver takes its context from the latest message of the
\* history that carries Stage 1/2/3 content (none when there is none), and
\* its original question is the user message right before that message.
C22_LatestDeliberation ==
    FollowupAsked =>
        LET with == {i \in 1..Len(messages) : CarriesStages(messages[i])}
        IN IF with = {} THEN ~prompt.context
           ELSE LET i == CHOOSE j \in with : \A k \in with : k <= j
                IN /\ prompt.context
                   /\ prompt.stage3_response = messages[i].stage3.response
                   /\ Len(prompt.stage1_summary) = Len(messages[i].stage1)
                   /\ \A k \in 1..Len(messages[i].stage1) :
                          prompt.stage1_summary[k].model =
                              messages[i].stage1[k].model
                   /\ (i > 1 /\ messages[i - 1].role = "user")
                          => prompt.original_query =
                                 Content(messages[i - 1].content)

\* Two deliberations, the second one after the question q1: the context is
\* the second deliberation and q1.
C22_Witness ==
    /\ mode = "followup" /\ pc = "returned"
    /\ messages = <<PriorMessages[2], UserTurn(<<"q1">>), LongDeliberation>>
    /\ prompt.context
    /\ prompt.original_query = Content(<<"q1">>)
    /\ Len(prompt.stage1_summary) = 2

\* ---------------------------------------------------------------- C23
NoDeliberationInHistory ==
    \A i \in 1..Len(messages) : ~CarriesStages(messages[i])

\* C23: with no deliberation in the history the resolver raises nothing,
\* makes one chairman call whose message holds the new query and nothing
\* else, and returns the chairman's answer as a follow-up result.
C23_DirectAnswerWithoutContext ==
    (mode = "followup" /\ pc # "start" /\ NoDeliberationInHistory)
        => /\ pc \in {"followup", "returned"}
           /\ fault = "none"
           /\ prompt = [context |-> FALSE, followup_query |-> Query]
           /\ calls.followup = 1
           /\ (pc = "returned" /\ chair.kind = "ok")
                  => returned = [model |-> CHAIRMAN_MODEL,
                                 response |-> Content(chair.text)]

\* A history with a failed run and a follow-up record, answered directly.
C23_Witness ==
    /\ mode = "followup" /\ pc = "returned"
    /\ messages = <<UserTurn(<<"q0">>), FailedDeliberation, FollowupTurn>>
    /\ prompt = [context |-> FALSE, followup_query |-> Query]
    /\ returned = [model |-> CHAIRMAN_MODEL, response |-> Content(<<"x">>)]

\* ---------------------------------------------------------------- C24
\* C24: every follow-up queries the chairman exactly once, with or without
\* context, and raises nothing; when that call gives no result the
\* resolver returns a sentinel response with a failure text.
C24_OneChairmanCall ==
    (mode = "followup" /\ pc # "start")
        => /\ fault = "none"
           /\ calls.followup = 1
           /\ calls.chairman = 0
           /\ (pc = "returned" /\ chair.kind \in FailKinds)
                  => /\ returned.model = CHAIRMAN_MODEL
                     /\ returned.response \in
                            {Content(FollowupFailedText),
                             Content(DirectFailedText)}

\* ---------------------------------------------------------------- C25
\* The run is over and every Stage 1 call of it failed.
AllStage1Failed ==
    /\ mode \in {"sync", "stream"}
    /\ is_first_message
    /\ pc = "done"
    /\ calls.stage1 = Len(COUNCIL_MODELS)
    /\ "stage1_results" \in assigned
    /\ stage1_results = <<>>

LabelSet == {label_to_model[i][1] : i \in 1..Len(label_to_model)}

NoDuplicates(seq) ==
    \A i, j \in 1..Len(seq) : seq[i] = seq[j] => i = j

\* C26: every parsed ranking stored in a Stage 2 submission holds no
\* label twice and only labels of the deliberation's label set.
C26_ParsedRankingClean ==
    ("stage2_results" \in assigned /\ "label_to_model" \in assigned)
        => \A i \in 1..Len(stage2_results) :
               /\ NoDuplicates(stage2_results[i].parsed_ranking)
               /\ Range(stage2_results[i].parsed_ranking) \subseteq LabelSet

\* ---------------------------------------------------------------- C27
\* The reviewers whose ranking mentions model m.
ReviewersOf(m) == {h[1] : h \in Hits(m)}

\* C27: the count of every aggregate entry is the number of reviewers whose
\* ranking mentions the model, and so never exceeds the number of Stage 2
\* submissions.
C27_CountIsReviewers ==
    Aggregated =>
        \A k \in 1..Len(aggregate_rankings) :
            LET e == aggregate_rankings[k]
            IN /\ e.rankings_count = Cardinality(ReviewersOf(e.model))
               /\ e.rankings_count <= Len(stage2_results)

\* ---------------------------------------------------------------- C28
\* Everything that follows the first marker of a text.
AfterFirstMarker(s) ==
    LET first_marker == CHOOSE i \in 1..Len(s) :
                            /\ s[i] = "MARK"
                            /\ \A j \in 1..(i - 1) : s[j] # "MARK"
    IN SubSeq(s, first_marker + 1, Len(s))

\* C28: with the marker present, the labels of all numbered items that
\* follow the first marker are returned in textual order, also when the
\* marker occurs again further on.
C28_AllNumberedAfterMarker ==
    (/\ Extracted
     /\ MarkerCount(ranking_text.text) >= 1
     /\ NumberedMentions(AfterFirstMarker(ranking_text.text)) # <<>>)
        => parsed_ranking =
               NumberedMentions(AfterFirstMarker(ranking_text.text))

\* ---------------------------------------------------------------- C29
RECURSIVE NumberedListOf(_)
\* The numbered list '1. <label> 2. <label> ...' of the given labels.
NumberedListOf(labels) ==
    IF Len(labels) = 0 THEN <<>>
    ELSE <<"NUM", "SP", Head(labels)>> \o NumberedListOf(Tail(labels))

\* The labels the anonymizer assigned, in order.
AssignedLabels == [i \in 1..Len(label_to_model) |-> label_to_model[i][1]]

\* C29: for more than 26 responses the labels stay pairwise distinct and
\* every one of them is a label token of the extractor: a numbered ranking
\* that lists all of them is extracted in full, and each extracted label
\* resolves through the mapping.
C29_ExtensionScheme ==
    (Anonymized /\ Len(stage1_results) > Len(LabelNames))
        => /\ Len(label_to_model) = Len(stage1_results)
           /\ NoDuplicates(AssignedLabels)
           /\ \A i \in 1..Len(AssignedLabels) : IsLabel(AssignedLabels[i])
           /\ LET parsed == parse_ranking_from_text(
                                <<"MARK">> \o NumberedListOf(AssignedLabels))
              IN /\ parsed = AssignedLabels
                 /\ \A i \in 1..Len(parsed) : DictHas(label_to_model, parsed[i])

\* ---------------------------------------------------------------- C30
\* The deliberation the context is taken from: the latest message that
\* carries the stages.
LocatedDeliberation ==
    LET with == {i \in 1..Len(messages) : CarriesStages(messages[i])}
    IN messages[CHOOSE j \in with : \A k \in with : k <= j]

RECURSIVE SummaryLength(_)
\* The characters and ellipses of a summary's response texts.
SummaryLength(summary) ==
    IF Len(summary) = 0 THEN 0
    ELSE Len(Head(summary).text) + SummaryLength(Tail(summary))

\* C30: in the follow-up prompt a Stage 1 response of the located
\* deliberation that is longer than 500 characters is cut to its first 500
\* characters and an ellipsis, a response of at most 500 characters is
\* included unchanged, and the synthesis is included in full; the response
\* texts of the summary are at most 500 characters and an ellipsis per
\* Stage 1 response.
C30_BoundedContext ==
    (FollowupAsked /\ prompt.context)
        => LET d == LocatedDeliberation
           IN /\ Len(prompt.stage1_summary) = Len(d.stage1)
              /\ \A k \in 1..Len(d.stage1) :
                     LET text == d.stage1[k].response.text
                         line == prompt.stage1_summary[k].text
                     IN IF Len(text) <= 500
                        THEN line = text
                        ELSE line = SubSeq(text, 1, 500) \o <<"...">>
              /\ prompt.stage3_response = d.stage3.response
              /\ SummaryLength(prompt.stage1_summary)
                     <= Len(d.stage1) * (500 + 1)

\* A response of 501 characters is cut, one of 500 is not, the synthesis of
\* 502 is whole.
C30_Witness ==
    /\ mode = "followup" /\ pc = "returned"
    /\ messages = <<UserTurn(<<"q0">>), LongDeliberation>>
    /\ prompt.context
    /\ prompt.stage1_summary[1].text = Chars(500) \o <<"...">>
    /\ prompt.stage1_summary[2].text = Chars(500)
    /\ prompt.stage3_response = Content(Chars(502))

\* ---------------------------------------------------------------- C31
\* C31: a stored message is never changed or removed: every step of a
\* request leaves the messages the conversation already holds as they are
\* and at most appends to them, so a follow-up and a title update leave the
\* stored deliberation's stage1, stage2 and stage3 unchanged.
C31_StoredMessagesKept ==
    [][/\ Len(messages') >= Len(messages)
       /\ \A i \in 1..Len(messages) : messages'[i] = messages[i]]_vars

\* A follow-up answered on the conversation that holds a deliberation: the
\* deliberation is still there, followed by the query and the follow-up.
C31_Witness ==
    /\ mode = "sync" /\ pc = "done" /\ ~is_first_message
    /\ Len(messages) = 4
    /\ SubSeq(messages, 1, 2) = PriorMessages
    /\ messages[3] = [role |-> "user", content |-> Query]
    /\ "type" \in DOMAIN messages[4]
    /\ messages[4].type = "followup"

\* ---------------------------------------------------------------- C32
\* C32: in both modes the title call does not hold up the stages: while
\* the title call of a first message is under way Stage 1 has been started
\* (unless the run has failed), and the title is taken from the call only
\* after Stage 3 has completed.
C32_TitleNeverBlocks ==
    (mode \in {"sync", "stream"} /\ is_first_message)
        => /\ (title_task = Pending /\ fault = "none") => calls.stage1 > 0
           /\ title # <<"New Conversation">> => stage3_result # Unset

\* ---------------------------------------------------------------- C33
\* The run of a first message has appended its deliberation record.
RecordAppended ==
    /\ mode \in {"sync", "stream"}
    /\ is_first_message
    /\ Len(messages) >= 2
    /\ messages[2].role = "assistant"

WithQuery ==
    Append(IF is_first_message THEN <<>> ELSE PriorMessages,
           [role |-> "user", content |-> Query])

LastEvent == events[Len(events)]

\* C34: in a streaming run the store holds the user message from the first
\* step on; the run's deliberation record is in the store, once, exactly
\* when complete has been yielded, and it is the only message added behind
\* the query; a run that has ended has yielded complete or error last, and
\* one that ended with error has added no assistant record.
C34_RecordIffComplete ==
    (mode = "stream" /\ pc # "start")
        => /\ Len(messages) >= Len(WithQuery)
           /\ SubSeq(messages, 1, Len(WithQuery)) = WithQuery
           /\ IF Len(events) > 0 /\ LastEvent = "complete"
              THEN /\ Len(messages) = Len(WithQuery) + 1
                   /\ messages[Len(messages)] =
                          [role |-> "assistant", stage1 |-> stage1_results,
                           stage2 |-> stage2_results, stage3 |-> stage3_result]
              ELSE messages = WithQuery
           /\ pc = "done" => LastEvent \in {"complete", "error"}

\* The title task raised after Stage 3 had completed: the stream ended with
\* error and the store holds the query alone.
C34_Witness ==
    /\ mode = "stream" /\ pc = "done"
    /\ fault = "AttributeError"
    /\ stage3_result # Unset
    /\ LastEvent = "error"
    /\ messages = <<[role |-> "user", content |-> Query]>>

\* ---------------------------------------------------------------- C35
\* The message is a deliberation record.
IsRecord(msg) == msg.role = "assistant" /\ "stage1" \in DOMAIN msg

RunEnded ==
    \/ /\ mode = "sync"
       /\ \/ pc = "done" /\ returned # Unset
          \/ pc = "raised"
    \/ /\ mode = "stream"
       /\ pc = "done"
       /\ Len(events) > 0
       /\ LastEvent \in {"complete", "error"}

\* C36 (termination alone): when every gateway call comes back or times
\* out, every fan-out batch a run waits for completes, and every run ends:
\* the synchronous request returns or raises, the stream ends with complete
\* or error.
C36_EveryRunEnds ==
    /\ <>RunEnded
    /\ (pc = "stage1") ~> (pc # "stage1")
    /\ (pc = "stage2") ~> (pc # "stage2")

\* C36 (as written): a synchronous run that has ended has returned a result.
\* Stated for a council.py that accepts duplicate_models, where the only
\* way not to return is an exception raised by the stage functions.
C36_SyncRunReturnsResult ==
    (accepts_duplicate_models /\ mode = "sync" /\ pc \in {"done", "raised"})
        => returned # Unset

\* ---------------------------------------------------------------- C37
\* C37: the callback creates a session only when the state parameter it
\* received equals the oauth_state value login stored in the cookie; with a
\* missing or mismatched state no session token is created.
C37_SessionOnlyForStoredState ==
    (auth_reply.op = "oauth_callback" /\ auth_reply.session # None)
        => /\ auth_reply.cookie # NoCookie
           /\ auth_reply.state = auth_reply.cookie

\* ---------------------------------------------------------------- C38
\* The token was issued, has not been logged out and has not passed its
\* expiry at time t.
LiveToken(token, t) ==
    \E i \in 1..Len(issued) :
        /\ issued[i].token = token
        /\ ~issued[i].ended
        /\ t <= issued[i].expires

\* The tokens a request carries, in its cookie or after "Bearer ".
Carried(request) ==
    {request.cookie}
        \cup (IF /\ request.authorization.present
                 /\ request.authorization.scheme = "Bearer "
              THEN {request.authorization.rest} ELSE {})

\* C38: a validation returns a username only for a token that was issued,
\* has not been logged out and has not passed its expiry, and then the
\* username it was issued for; a token found expired is out of the store
\* and does not validate again; with auth enabled verify_auth answers 401
\* to every request that carries no such token.
C38_OnlyLiveTokensValidate ==
    /\ (auth_reply.op \in {"verify_auth", "auth_status"}
            /\ auth_reply.username # None)
           => /\ LiveToken(auth_reply.token, now)
              /\ \A i \in 1..Len(issued) :
                     issued[i].token = auth_reply.token
                         => /\ auth_reply.username = issued[i].username
                            /\ ~issued[i].found_expired
    /\ \A i \in 1..Len(issued) :
           (issued[i].found_expired \/ issued[i].ended)
               => ~DictHas(sessions, issued[i].token)
    /\ (auth_reply.op = "verify_auth" /\ auth_enabled
            /\ \A t \in Carried(auth_reply.request) : ~LiveToken(t, now))
           => auth_reply.status = 401

\* verify_auth has just answered 401 to the cookie of a session that was
\* issued and that this validation found expired and removed.
C38_Witness ==
    /\ auth_reply.op = "verify_auth"
    /\ auth_reply.status = 401
    /\ auth_reply.request.cookie = SessionTokens[1]
    /\ \E i \in 1..Len(issued) :
           /\ issued[i].token = SessionTokens[1]
           /\ issued[i].found_expired
           /\ ~issued[i].ended
           /\ now = issued[i].expires + 1
    /\ sessions = <<>>

====
